---- MODULE Spec2Model ----
(***************************************************************************)
(* The AgentController ledger of dai-agents-toolkit.                       *)
(*                                                                         *)
(* Two versions of the contract live in the repository:                    *)
(*   - the reputation-enabled contract (registerAgent, sendMessageToAgent, *)
(*     respondToAgent, rateAgent and the views), and                       *)
(*   - the base contract contracts/src/AgentsController.sol the Foundry    *)
(*     tests import (registerAgent, sendMessageToAgent, respondToAgent).   *)
(* Both are modelled.  The two deployments receive the same sequence of    *)
(* transactions; a rateAgent transaction exists only on the                *)
(* reputation-enabled one.  A transaction is atomic: a failed require      *)
(* reverts the whole call, so a failed call leaves no trace in storage or  *)
(* in the log; its revert string is the value of the call's require chain. *)
(*                                                                         *)
(* The SDK's EventMonitor is modelled next to the ledger, under its own    *)
(* specification MonitorSpec: one EventMonitor instance, the JavaScript    *)
(* timers and pending promises it creates, and the chain its provider      *)
(* reads.  Code between two awaits runs as one step; a timer callback, a   *)
(* provider reply, a call of startMonitoring or stopMonitoring and a new   *)
(* block are separate steps that interleave freely.                        *)
(***************************************************************************)
EXTENDS Integers, Sequences, FiniteSets, Bags, TLC

(***************************************************************************)
(* Bounds of the model.                                                    *)
(***************************************************************************)
MaxAgents == 3
MaxEvents == 7
MaxMessages == 2
\* messaging transactions are explored while the log is shorter than this
MaxMessagingDepth == 3
\* blocks the chain grows to while the monitor is observed
MaxBlocks == 2
\* interval timers alive at once, started or about to be started
MaxTimers == 2
\* pollEvents calls in flight at once
MaxPolls == 2
\* provider reads that fail while the monitor is observed
MaxReadFailures == 1

(***************************************************************************)
(* Inputs.                                                                 *)
(***************************************************************************)
\* msg.sender: address(0x1) .. address(0x4), as in the Foundry tests
Identities == 1..4
\* the registration data each address submits (name, role, ipfsHash)
Profile(sender) ==
    CASE sender = 1 -> <<"TestAgent1", "RoleAgent", "QmTestHash1">>
      [] sender = 2 -> <<"TestAgent2", "RoleChat", "QmTestHash2">>
      [] sender = 3 -> <<"ChatBot", "RoleChat", "">>
      [] OTHER -> <<"", "RoleAgent", "QmTestHash3">>
\* message bodies: TEST_MESSAGE and the empty string of test_EmptyMessage
Bodies == {"hi", ""}
\* response bodies: TEST_RESPONSE
Responses == {"hi"}
Comments == {"Great work!"}

\* ids a caller can name: every id that can be assigned and one that never is
AgentIdArgs == 0..MaxAgents
\* message ids a caller can name: one a send may have assigned, one never assigned
MessageIdArgs == {0, MaxMessages}

VARIABLES
    agents, agentIds, hasRated, ratingValue, nextId, messageIdCounter,
    events, returned,
    baseAgents, baseAgentIds, baseNextId, baseMessageIdCounter,
    baseEvents, baseReturned

\* EventMonitor: its four fields, then its environment
VARIABLES
    isListening,         \* private isListening: boolean
    pollInterval,        \* private pollInterval: number
    lastProcessedBlock,  \* private lastProcessedBlock: number
    intervalId,          \* private intervalId?: NodeJS.Timeout; <<>> is undefined
    timers,              \* the interval timers that were set and not cleared
    starting,            \* startMonitoring calls awaiting getBlockNumber
    polls,               \* the bag of pollEvents calls in flight
    chain,               \* the contract's logs on the chain, one per block
    emitted,             \* what emit() handed to the listeners in this run
    runStart             \* lastProcessedBlock as the latest start set it

\* a second EventMonitor, of another AgentSDK, on the same contract: its
\* fields, the timers whose callback is its own, and what it awaits and emits
VARIABLES
    otherIsListening, otherPollInterval, otherLastProcessedBlock,
    otherIntervalId, otherHandles, otherStarting, otherPolls, otherEmitted,
    otherRunStart

repVars == <<agents, agentIds, hasRated, ratingValue, nextId,
             messageIdCounter, events, returned>>
baseVars == <<baseAgents, baseAgentIds, baseNextId, baseMessageIdCounter,
              baseEvents, baseReturned>>
monVars == <<isListening, pollInterval, lastProcessedBlock, intervalId,
             timers, starting, polls, chain, emitted, runStart>>
vars == <<agents, agentIds, hasRated, ratingValue, nextId, messageIdCounter,
          events, returned,
          baseAgents, baseAgentIds, baseNextId, baseMessageIdCounter,
          baseEvents, baseReturned,
          isListening, pollInterval, lastProcessedBlock, intervalId,
          timers, starting, polls, chain, emitted, runStart,
          otherIsListening, otherPollInterval, otherLastProcessedBlock,
          otherIntervalId, otherHandles, otherStarting, otherPolls,
          otherEmitted, otherRunStart>>
otherVars == <<otherIsListening, otherPollInterval, otherLastProcessedBlock,
               otherIntervalId, otherHandles, otherStarting, otherPolls,
               otherEmitted, otherRunStart>>

(***************************************************************************)
(* Records.                                                                *)
(***************************************************************************)
Agent(id, name, role, ipfsHash, trustScore, totalInteractions, positiveRatings) ==
    [id |-> id, name |-> name, role |-> role, ipfsHash |-> ipfsHash,
     trustScore |-> trustScore, totalInteractions |-> totalInteractions,
     positiveRatings |-> positiveRatings]

\* the value a storage slot of mapping(uint256 => Agent) reads before any write
ZeroAgent == Agent(0, "", "RoleAgent", "", 0, 0, 0)

BaseAgent(id, name, role, ipfsHash) ==
    [id |-> id, name |-> name, role |-> role, ipfsHash |-> ipfsHash]

BaseZeroAgent == BaseAgent(0, "", "RoleAgent", "")

\* role == AgentRole.Agent ? "Agent" : "Chat"
roleString(role) == IF role = "RoleAgent" THEN "Agent" ELSE "Chat"

AgentRegistered(agentId, agentAddress, name, role, ipfsHash) ==
    [kind |-> "AgentRegistered", agentId |-> agentId,
     agentAddress |-> agentAddress, name |-> name, role |-> role,
     ipfsHash |-> ipfsHash]

MessageSent(messageId, senderAgentId, receiverAgentId, message) ==
    [kind |-> "MessageSent", messageId |-> messageId,
     senderAgentId |-> senderAgentId, receiverAgentId |-> receiverAgentId,
     message |-> message]

MessageResponded(messageId, senderAgentId, receiverAgentId, response) ==
    [kind |-> "MessageResponded", messageId |-> messageId,
     senderAgentId |-> senderAgentId, receiverAgentId |-> receiverAgentId,
     response |-> response]

AgentRated(agentId, raterAgentId, positive, comment) ==
    [kind |-> "AgentRated", agentId |-> agentId,
     raterAgentId |-> raterAgentId, positive |-> positive,
     comment |-> comment]

TrustScoreUpdated(agentId, newTrustScore, totalInteractions) ==
    [kind |-> "TrustScoreUpdated", agentId |-> agentId,
     newTrustScore |-> newTrustScore,
     totalInteractions |-> totalInteractions]

\* the value returned by the latest registerAgent call; empty before the first
NoReturn == <<>>

(***************************************************************************)
(* Initial state: both contracts freshly deployed.                         *)
(***************************************************************************)
Init ==
    /\ agents = [i \in AgentIdArgs |-> ZeroAgent]
    /\ agentIds = [a \in Identities |-> 0]
    /\ hasRated = [t \in AgentIdArgs |-> [r \in AgentIdArgs |-> FALSE]]
    /\ ratingValue = [t \in AgentIdArgs |-> [r \in AgentIdArgs |-> FALSE]]
    /\ nextId = 0
    /\ messageIdCounter = 0
    /\ events = <<>>
    /\ returned = NoReturn
    /\ baseAgents = [i \in AgentIdArgs |-> BaseZeroAgent]
    /\ baseAgentIds = [a \in Identities |-> 0]
    /\ baseNextId = 0
    /\ baseMessageIdCounter = 0
    /\ baseEvents = <<>>
    /\ baseReturned = NoReturn
    /\ isListening = FALSE
    /\ pollInterval = 5000
    /\ lastProcessedBlock = 0
    /\ intervalId = <<>>
    /\ timers = {}
    /\ starting = 0
    /\ polls = EmptyBag
    /\ chain = <<>>
    /\ emitted = <<>>
    /\ runStart = 0
    /\ otherIsListening = FALSE
    /\ otherPollInterval = 5000
    /\ otherLastProcessedBlock = 0
    /\ otherIntervalId = <<>>
    /\ otherHandles = {}
    /\ otherStarting = 0
    /\ otherPolls = EmptyBag
    /\ otherEmitted = <<>>
    /\ otherRunStart = 0

(***************************************************************************)
(* registerAgent                                                           *)
(***************************************************************************)
registerAgent_PreIncrement(sender, name, role, ipfsHash) ==
    LET agentId == nextId + 1 IN
    /\ nextId' = nextId + 1
    /\ agents' = [agents EXCEPT ![agentId] =
                      Agent(agentId, name, role, ipfsHash, 100, 0, 0)]
    /\ agentIds' = [agentIds EXCEPT ![sender] = agentId]
    /\ events' = Append(events,
                     AgentRegistered(agentId, sender, name, roleString(role), ipfsHash))
    /\ returned' = <<agentId>>
    /\ UNCHANGED <<hasRated, ratingValue, messageIdCounter>>

registerAgent_BindsOnce(sender, name, role, ipfsHash) ==
    LET agentId == nextId IN
    /\ nextId' = nextId + 1
    /\ agents' = [agents EXCEPT ![agentId] =
                      Agent(agentId, name, role, ipfsHash, 100, 0, 0)]
    /\ agentIds' = IF \A k \in 1..Len(events) :
                          events[k].kind = "AgentRegistered"
                              => events[k].agentAddress # sender
                   THEN [agentIds EXCEPT ![sender] = agentId]
                   ELSE agentIds
    /\ events' = Append(events,
                     AgentRegistered(agentId, sender, name, roleString(role), ipfsHash))
    /\ returned' = <<agentId>>
    /\ UNCHANGED <<hasRated, ratingValue, messageIdCounter>>

registerAgent_OverwritesOwnAgent(sender, name, role, ipfsHash) ==
    LET again == \E k \in 1..Len(events) :
                     /\ events[k].kind = "AgentRegistered"
                     /\ events[k].agentAddress = sender
        agentId == IF again THEN agentIds[sender] ELSE nextId
    IN
    /\ nextId' = IF again THEN nextId ELSE nextId + 1
    /\ agents' = [agents EXCEPT ![agentId] =
                      Agent(agentId, name, role, ipfsHash, 100, 0, 0)]
    /\ agentIds' = [agentIds EXCEPT ![sender] = agentId]
    /\ events' = Append(events,
                     AgentRegistered(agentId, sender, name, roleString(role), ipfsHash))
    /\ returned' = <<agentId>>
    /\ UNCHANGED <<hasRated, ratingValue, messageIdCounter>>

\* uint256 agentId = nextId++; store; bind msg.sender; emit; return agentId
registerAgent(sender, name, role, ipfsHash) ==
    LET agentId == nextId IN
    /\ nextId' = nextId + 1
    /\ agents' = [agents EXCEPT ![agentId] =
                      Agent(agentId, name, role, ipfsHash, 100, 0, 0)]
    /\ agentIds' = [agentIds EXCEPT ![sender] = agentId]
    /\ events' = Append(events,
                     AgentRegistered(agentId, sender, name, roleString(role), ipfsHash))
    /\ returned' = <<agentId>>
    /\ UNCHANGED <<hasRated, ratingValue, messageIdCounter>>

baseRegisterAgent(sender, name, role, ipfsHash) ==
    LET agentId == baseNextId IN
    /\ baseNextId' = baseNextId + 1
    /\ baseAgents' = [baseAgents EXCEPT ![agentId] =
                          BaseAgent(agentId, name, role, ipfsHash)]
    /\ baseAgentIds' = [baseAgentIds EXCEPT ![sender] = agentId]
    /\ baseReturned' = <<agentId>>
    /\ UNCHANGED <<baseMessageIdCounter, baseEvents>>

(***************************************************************************)
(* sendMessageToAgent                                                      *)
(***************************************************************************)
sendMessageToAgent_CountsBeforeCheck(sender, agentId, message) ==
    IF ~(nextId > agentId)
    THEN /\ messageIdCounter' = messageIdCounter + 1
         /\ UNCHANGED <<agents, agentIds, hasRated, ratingValue, nextId,
                        events, returned>>
    ELSE LET senderAgentId == agentIds[sender]
             messageId == messageIdCounter
         IN /\ messageIdCounter' = messageIdCounter + 1
            /\ events' = Append(events,
                             MessageSent(messageId, senderAgentId, agentId, message))
            /\ UNCHANGED <<agents, agentIds, hasRated, ratingValue, nextId, returned>>

\* require(nextId > agentId, "AGENT_NOT_FOUND")
sendMessageToAgentRequire_OffByOne(agentId) ==
    IF ~(nextId >= agentId) THEN "AGENT_NOT_FOUND" ELSE "OK"

sendMessageToAgentRequire(agentId) ==
    IF ~(nextId > agentId) THEN "AGENT_NOT_FOUND" ELSE "OK"

sendMessageToAgent_CountsInteraction(sender, agentId, message) ==
    IF sendMessageToAgentRequire(agentId) # "OK"
    THEN UNCHANGED repVars
    ELSE LET senderAgentId == agentIds[sender]
             messageId == messageIdCounter
         IN /\ messageIdCounter' = messageIdCounter + 1
            /\ agents' = [agents EXCEPT ![agentId].totalInteractions = @ + 1]
            /\ events' = Append(events,
                             MessageSent(messageId, senderAgentId, agentId, message))
            /\ UNCHANGED <<agentIds, hasRated, ratingValue, nextId, returned>>

sendMessageToAgent(sender, agentId, message) ==
    IF sendMessageToAgentRequire(agentId) # "OK"
    THEN UNCHANGED repVars
    ELSE LET senderAgentId == agentIds[sender]
             messageId == messageIdCounter
         IN /\ messageIdCounter' = messageIdCounter + 1
            /\ events' = Append(events,
                             MessageSent(messageId, senderAgentId, agentId, message))
            /\ UNCHANGED <<agents, agentIds, hasRated, ratingValue, nextId, returned>>

\* require(nextId > agentId, "AGENT_NOT_FOUND") of the base contract
baseSendMessageToAgentRequire(agentId) ==
    IF ~(baseNextId > agentId) THEN "AGENT_NOT_FOUND" ELSE "OK"

baseSendMessageToAgent_SwapsIds(sender, agentId, message) ==
    IF ~(baseNextId > agentId)
    THEN UNCHANGED baseVars
    ELSE LET senderAgentId == baseAgentIds[sender]
             messageId == baseMessageIdCounter
         IN /\ baseMessageIdCounter' = baseMessageIdCounter + 1
            /\ baseEvents' = Append(baseEvents,
                                 MessageSent(messageId, agentId, senderAgentId, message))
            /\ UNCHANGED <<baseAgents, baseAgentIds, baseNextId, baseReturned>>

baseSendMessageToAgent(sender, agentId, message) ==
    IF ~(baseNextId > agentId)
    THEN UNCHANGED baseVars
    ELSE LET senderAgentId == baseAgentIds[sender]
             messageId == baseMessageIdCounter
         IN /\ baseMessageIdCounter' = baseMessageIdCounter + 1
            /\ baseEvents' = Append(baseEvents,
                                 MessageSent(messageId, senderAgentId, agentId, message))
            /\ UNCHANGED <<baseAgents, baseAgentIds, baseNextId, baseReturned>>

(***************************************************************************)
(* respondToAgent                                                          *)
(***************************************************************************)
\* require(nextId > receiverAgentId, "RECV_AGENT_NOT_FOUND")
respondToAgentRequire(receiverAgentId) ==
    IF ~(nextId > receiverAgentId) THEN "RECV_AGENT_NOT_FOUND" ELSE "OK"

respondToAgent_ConsumesMessageId(sender, messageId, receiverAgentId, response) ==
    IF respondToAgentRequire(receiverAgentId) # "OK"
    THEN UNCHANGED repVars
    ELSE LET responderAgentId == agentIds[sender]
         IN /\ messageIdCounter' = messageIdCounter + 1
            /\ events' = Append(events,
                             MessageResponded(messageId, responderAgentId,
                                              receiverAgentId, response))
            /\ UNCHANGED <<agents, agentIds, hasRated, ratingValue, nextId,
                           returned>>

respondToAgent_RequiresSentMessage(sender, messageId, receiverAgentId, response) ==
    IF respondToAgentRequire(receiverAgentId) # "OK"
       \/ ~(messageId < messageIdCounter)
    THEN UNCHANGED repVars
    ELSE LET responderAgentId == agentIds[sender]
         IN /\ events' = Append(events,
                             MessageResponded(messageId, responderAgentId,
                                              receiverAgentId, response))
            /\ UNCHANGED <<agents, agentIds, hasRated, ratingValue, nextId,
                           messageIdCounter, returned>>

respondToAgent(sender, messageId, receiverAgentId, response) ==
    IF respondToAgentRequire(receiverAgentId) # "OK"
    THEN UNCHANGED repVars
    ELSE LET responderAgentId == agentIds[sender]
         IN /\ events' = Append(events,
                             MessageResponded(messageId, responderAgentId,
                                              receiverAgentId, response))
            /\ UNCHANGED <<agents, agentIds, hasRated, ratingValue, nextId,
                           messageIdCounter, returned>>

\* require(nextId > receiverAgentId, "RECV_AGENT_NOT_FOUND") of the base
\* contract
baseRespondToAgentRequire(receiverAgentId) ==
    IF ~(baseNextId > receiverAgentId) THEN "RECV_AGENT_NOT_FOUND" ELSE "OK"

baseRespondToAgent(sender, messageId, receiverAgentId, response) ==
    IF ~(baseNextId > receiverAgentId)
    THEN UNCHANGED baseVars
    ELSE LET responderAgentId == baseAgentIds[sender]
         IN /\ baseEvents' = Append(baseEvents,
                                 MessageResponded(messageId, responderAgentId,
                                                  receiverAgentId, response))
            /\ UNCHANGED <<baseAgents, baseAgentIds, baseNextId,
                           baseMessageIdCounter, baseReturned>>

(***************************************************************************)
(* rateAgent                                                               *)
(***************************************************************************)
\* the four require statements of rateAgent, in order
rateAgentRequire_NoDuplicateCheck(sender, agentId) ==
    LET raterAgentId == agentIds[sender] IN
    IF ~(raterAgentId # 0) THEN "RATER_NOT_REGISTERED"
    ELSE IF ~(agentId < nextId) THEN "AGENT_NOT_FOUND"
    ELSE IF ~(raterAgentId # agentId) THEN "CANNOT_RATE_SELF"
    ELSE "OK"

rateAgentRequire_NoSelfCheck(sender, agentId) ==
    LET raterAgentId == agentIds[sender] IN
    IF ~(raterAgentId # 0) THEN "RATER_NOT_REGISTERED"
    ELSE IF ~(agentId < nextId) THEN "AGENT_NOT_FOUND"
    ELSE IF ~(~hasRated[agentId][raterAgentId]) THEN "ALREADY_RATED"
    ELSE "OK"

\* the require chain of rateAgent: the first failing require, or "OK"
rateAgentRequire(sender, agentId) ==
    LET raterAgentId == agentIds[sender] IN
    IF ~(raterAgentId # 0) THEN "RATER_NOT_REGISTERED"
    ELSE IF ~(agentId < nextId) THEN "AGENT_NOT_FOUND"
    ELSE IF ~(raterAgentId # agentId) THEN "CANNOT_RATE_SELF"
    ELSE IF ~(~hasRated[agentId][raterAgentId]) THEN "ALREADY_RATED"
    ELSE "OK"

newTrustScore_DivideFirst(positiveRatings, totalInteractions) ==
    (positiveRatings \div totalInteractions) * 100

\* (positiveRatings * 100) / totalInteractions, unsigned integer division
newTrustScore(positiveRatings, totalInteractions) ==
    (positiveRatings * 100) \div totalInteractions

rateAgentEmits_ScoreFirst(agentId, raterAgentId, positive, comment, score, total) ==
    << TrustScoreUpdated(agentId, score, total),
       AgentRated(agentId, raterAgentId, positive, comment) >>

rateAgentEmits_PreviousTotal(agentId, raterAgentId, positive, comment, score, total) ==
    << AgentRated(agentId, raterAgentId, positive, comment),
       TrustScoreUpdated(agentId, score, total - 1) >>

\* emit AgentRated(...); emit TrustScoreUpdated(...);
rateAgentEmits(agentId, raterAgentId, positive, comment, score, total) ==
    << AgentRated(agentId, raterAgentId, positive, comment),
       TrustScoreUpdated(agentId, score, total) >>

rateAgent_CountsEveryRatingPositive(sender, agentId, positive, comment) ==
    LET raterAgentId == agentIds[sender]
        err == rateAgentRequire(sender, agentId)
    IN
    IF err # "OK"
    THEN UNCHANGED repVars
    ELSE LET totalInteractions == agents[agentId].totalInteractions + 1
             positiveRatings == agents[agentId].positiveRatings + 1
             score == newTrustScore(positiveRatings, totalInteractions)
         IN /\ hasRated' = [hasRated EXCEPT ![agentId][raterAgentId] = TRUE]
            /\ ratingValue' = [ratingValue EXCEPT ![agentId][raterAgentId] = positive]
            /\ agents' = [agents EXCEPT
                             ![agentId].totalInteractions = totalInteractions,
                             ![agentId].positiveRatings = positiveRatings,
                             ![agentId].trustScore = score]
            /\ events' = events \o
                   rateAgentEmits(agentId, raterAgentId, positive, comment,
                                  score, totalInteractions)
            /\ UNCHANGED <<agentIds, nextId, messageIdCounter, returned>>

rateAgent(sender, agentId, positive, comment) ==
    LET raterAgentId == agentIds[sender]
        err == rateAgentRequire(sender, agentId)
    IN
    IF err # "OK"
    THEN UNCHANGED repVars
    ELSE LET totalInteractions == agents[agentId].totalInteractions + 1
             positiveRatings == IF positive
                                THEN agents[agentId].positiveRatings + 1
                                ELSE agents[agentId].positiveRatings
             score == newTrustScore(positiveRatings, totalInteractions)
         IN /\ hasRated' = [hasRated EXCEPT ![agentId][raterAgentId] = TRUE]
            /\ ratingValue' = [ratingValue EXCEPT ![agentId][raterAgentId] = positive]
            /\ agents' = [agents EXCEPT
                             ![agentId].totalInteractions = totalInteractions,
                             ![agentId].positiveRatings = positiveRatings,
                             ![agentId].trustScore = score]
            /\ events' = events \o
                   rateAgentEmits(agentId, raterAgentId, positive, comment,
                                  score, totalInteractions)
            /\ UNCHANGED <<agentIds, nextId, messageIdCounter, returned>>

(***************************************************************************)
(* Views.                                                                  *)
(***************************************************************************)
countAgents == nextId

listAgents_FromOne == [k \in 1..nextId |-> agents[k]]

\* Agent[] of length nextId; index k of the sequence is array index k - 1
listAgents == [k \in 1..nextId |-> agents[k - 1]]

baseCountAgents == baseNextId

baseListAgents == [k \in 1..baseNextId |-> baseAgents[k - 1]]

getAgentReputation_OffByOne(agentId) ==
    IF ~(agentId <= nextId) THEN <<"AGENT_NOT_FOUND">>
    ELSE <<agents[agentId].trustScore, agents[agentId].totalInteractions,
           agents[agentId].positiveRatings>>

getAgentReputation(agentId) ==
    IF ~(agentId < nextId) THEN <<"AGENT_NOT_FOUND">>
    ELSE <<agents[agentId].trustScore, agents[agentId].totalInteractions,
           agents[agentId].positiveRatings>>

hasAgentRated_Swapped(agentId, raterAgentId) == hasRated[raterAgentId][agentId]

hasAgentRated(agentId, raterAgentId) == hasRated[agentId][raterAgentId]

getRating(agentId, raterAgentId) ==
    IF ~hasRated[agentId][raterAgentId] THEN "NO_RATING_EXISTS"
    ELSE ratingValue[agentId][raterAgentId]

SwapAt(list, i, j) == [list EXCEPT ![i] = list[j], ![j] = list[i]]

RECURSIVE SortInner_Ascending(_, _, _, _)
SortInner_Ascending(list, i, j, n) ==
    IF ~(j < n) THEN list
    ELSE SortInner_Ascending(IF list[i + 1].trustScore > list[j + 1].trustScore
                             THEN SwapAt(list, i + 1, j + 1)
                             ELSE list,
                             i, j + 1, n)

RECURSIVE SortInner(_, _, _, _)
\* for (j = i + 1; j < n; j++) if (list[i].trustScore < list[j].trustScore) swap
SortInner(list, i, j, n) ==
    IF ~(j < n) THEN list
    ELSE SortInner(IF list[i + 1].trustScore < list[j + 1].trustScore
                   THEN SwapAt(list, i + 1, j + 1)
                   ELSE list,
                   i, j + 1, n)

RECURSIVE SortOuter(_, _, _)
\* for (i = 0; i < n; i++) { inner loop }
SortOuter(list, i, n) ==
    IF ~(i < n) THEN list
    ELSE SortOuter(SortInner(list, i, i + 1, n), i + 1, n)

getTopRatedAgents == SortOuter(listAgents, 0, nextId)

(***************************************************************************)
(* Transactions: the same call is submitted to both deployments.           *)
(***************************************************************************)
Register(sender, name, role, ipfsHash) ==
    /\ nextId < MaxAgents
    /\ Len(events) < MaxEvents
    /\ registerAgent(sender, name, role, ipfsHash)
    /\ baseRegisterAgent(sender, name, role, ipfsHash)
    /\ UNCHANGED monVars
    /\ UNCHANGED otherVars

Send(sender, agentId, message) ==
    /\ nextId > agentId => (messageIdCounter < MaxMessages /\ Len(events) < MaxMessagingDepth)
    /\ sendMessageToAgent(sender, agentId, message)
    /\ baseSendMessageToAgent(sender, agentId, message)
    /\ UNCHANGED monVars
    /\ UNCHANGED otherVars

Respond(sender, messageId, receiverAgentId, response) ==
    /\ nextId > receiverAgentId =>
           Len(events) < MaxMessagingDepth
    /\ respondToAgent(sender, messageId, receiverAgentId, response)
    /\ baseRespondToAgent(sender, messageId, receiverAgentId, response)
    /\ UNCHANGED monVars
    /\ UNCHANGED otherVars

Rate(sender, agentId, positive, comment) ==
    /\ rateAgentRequire(sender, agentId) = "OK" => Len(events) + 2 <= MaxEvents
    /\ rateAgent(sender, agentId, positive, comment)
    /\ UNCHANGED baseVars
    /\ UNCHANGED monVars
    /\ UNCHANGED otherVars

\* Addresses are opaque keys of agentIds: the callers considered are the
\* addresses that have registered and the lowest address that has not.
Registered(a) == \E k \in 1..Len(events) :
    events[k].kind = "AgentRegistered" /\ events[k].agentAddress = a
Unregistered == {a \in Identities : ~Registered(a)}
Callers == {a \in Identities : Registered(a) \/ \A b \in Unregistered : a <= b}

Next ==
    \/ \E s \in Callers :
           Register(s, Profile(s)[1], Profile(s)[2], Profile(s)[3])
    \/ \E s \in Callers, a \in AgentIdArgs, m \in Bodies :
           Send(s, a, m)
    \/ \E s \in Callers, mid \in MessageIdArgs, a \in AgentIdArgs, m \in Responses :
           Respond(s, mid, a, m)
    \/ \E s \in Callers, a \in AgentIdArgs, p \in BOOLEAN, c \in Comments :
           Rate(s, a, p, c)

Spec == Init /\ [][Next]_vars

(***************************************************************************)
(* EventMonitor: inputs and the provider.                                  *)
(***************************************************************************)
ledgerVars == <<repVars, baseVars>>

\* options.fromBlock: 'latest', a block number, or left out
FromBlockArgs ==
    {[type |-> "latest", value |-> 0], [type |-> "undefined", value |-> 0]}
        \cup {[type |-> "number", value |-> n] : n \in 0..1}
\* options.pollInterval in milliseconds; 0 stands for a value left out
PollIntervalArgs == {0, 3000}

\* the event names the monitor emits
EventNames == {"AgentRegistered", "MessageSent", "MessageResponded",
               "AgentUpdated", "AgentRated", "TrustScoreUpdated"}
\* the log the contract leaves in a block while the monitor is observed:
\* messages in odd blocks, ratings in even ones
LogNameAt(blockNumber) ==
    IF blockNumber % 2 = 1 THEN "MessageSent" ELSE "AgentRated"

Log(blockNumber, name) == [blockNumber |-> blockNumber, name |-> name]

\* EventNames.ERROR, and the block number an error emitted by the interval
\* callback is recorded under (it belongs to no log)
ERROR == "error"
NoBlock == 0

\* what parseLog makes of a log that is none of EventNames: "Unknown" has a
\* topic the interface does not know (parseLog returns null), "Undecodable"
\* has data parseLog throws on
UnparsedNames == {"Unknown", "Undecodable"}

\* provider.getBlockNumber(): the chain's tip
getBlockNumber == Len(chain)

\* provider.getLogs({address, fromBlock, toBlock}): block b's log is chain[b];
\* block 0 and blocks not mined yet hold no log of the contract
getLogs(fromBlock, toBlock) ==
    LET first == IF fromBlock < 1 THEN 1 ELSE fromBlock
        last == IF toBlock > Len(chain) THEN Len(chain) ELSE toBlock
    IN IF first > last THEN <<>> ELSE SubSeq(chain, first, last)

\* a pollEvents call suspended at one of its awaits, with its locals
PollAwaiting(at, currentBlock, fromBlock) ==
    [at |-> at, currentBlock |-> currentBlock, fromBlock |-> fromBlock]

(***************************************************************************)
(* EventMonitor: startMonitoring, stopMonitoring, startPolling.            *)
(***************************************************************************)
\* if (this.isListening) throw new Error('Event monitoring is already active')
startMonitoringThrows ==
    IF isListening THEN "Event monitoring is already active" ELSE "OK"

\* the handle setInterval returns: one no live timer has
NewTimer == CHOOSE h \in 1..(Cardinality(timers) + 1) : h \notin timers

\* this.intervalId = setInterval(callback, this.pollInterval)
startPolling ==
    /\ intervalId' = <<NewTimer>>
    /\ timers' = timers \cup {NewTimer}

startMonitoring_SetsIntervalBeforeCheck(options) ==
    /\ pollInterval' = IF options.pollInterval # 0
                       THEN options.pollInterval ELSE 5000
    /\ IF startMonitoringThrows # "OK"
       THEN UNCHANGED <<isListening, lastProcessedBlock, intervalId, timers,
                        starting, polls, chain, emitted, runStart>>
       ELSE IF options.fromBlock.type = "number"
            THEN /\ lastProcessedBlock' = options.fromBlock.value
                 /\ isListening' = TRUE
                 /\ startPolling
                 /\ emitted' = <<>>
                 /\ runStart' = options.fromBlock.value
                 /\ UNCHANGED <<starting, polls, chain>>
            ELSE /\ starting' = starting + 1
                 /\ UNCHANGED <<isListening, lastProcessedBlock, intervalId,
                                timers, polls, chain, emitted, runStart>>

\* startMonitoring up to its first await, or to its end when fromBlock is a
\* number; a run that begins has nothing emitted yet
startMonitoring(options) ==
    IF startMonitoringThrows # "OK"
    THEN UNCHANGED monVars
    ELSE /\ pollInterval' = IF options.pollInterval # 0
                            THEN options.pollInterval ELSE 5000
         /\ IF options.fromBlock.type = "number"
            THEN /\ lastProcessedBlock' = options.fromBlock.value
                 /\ isListening' = TRUE
                 /\ startPolling
                 /\ emitted' = <<>>
                 /\ runStart' = options.fromBlock.value
                 /\ UNCHANGED <<starting, polls, chain>>
            ELSE /\ starting' = starting + 1
                 /\ UNCHANGED <<isListening, lastProcessedBlock, intervalId,
                                timers, polls, chain, emitted, runStart>>

\* startMonitoring from the reply of its getBlockNumber to its end
startMonitoringResumes ==
    /\ starting > 0
    /\ starting' = starting - 1
    /\ lastProcessedBlock' = getBlockNumber
    /\ isListening' = TRUE
    /\ startPolling
    /\ emitted' = <<>>
    /\ runStart' = getBlockNumber
    /\ UNCHANGED <<pollInterval, polls, chain>>

stopMonitoring_KeepsTimer ==
    /\ isListening' = FALSE
    /\ UNCHANGED <<intervalId, timers>>
    /\ UNCHANGED <<pollInterval, lastProcessedBlock, starting, polls, chain,
                   emitted, runStart>>

stopMonitoring ==
    /\ isListening' = FALSE
    /\ IF intervalId # <<>>
       THEN /\ timers' = timers \ {intervalId[1]}
            /\ intervalId' = <<>>
       ELSE UNCHANGED <<intervalId, timers>>
    /\ UNCHANGED <<pollInterval, lastProcessedBlock, starting, polls, chain,
                   emitted, runStart>>

isMonitoring == isListening

(***************************************************************************)
(* EventMonitor: the interval callback, pollEvents, processLog.            *)
(***************************************************************************)
\* the callback of timer h calls pollEvents, which asks for the block number
intervalCallback(h) ==
    /\ h \in timers
    /\ polls' = polls (+) SetToBag({PollAwaiting("getBlockNumber", 0, 0)})
    /\ UNCHANGED <<isListening, pollInterval, lastProcessedBlock, intervalId,
                   timers, starting, chain, emitted, runStart>>

pollEventsGotBlockNumber_FromCursor(poll) ==
    /\ poll.at = "getBlockNumber"
    /\ LET currentBlock == getBlockNumber IN
       IF currentBlock <= lastProcessedBlock
       THEN polls' = polls (-) SetToBag({poll})
       ELSE polls' = (polls (-) SetToBag({poll})) (+)
                         SetToBag({PollAwaiting("getLogs", currentBlock,
                                                lastProcessedBlock)})
    /\ UNCHANGED <<isListening, pollInterval, lastProcessedBlock, intervalId,
                   timers, starting, chain, emitted, runStart>>

\* pollEvents from the reply of getBlockNumber to the request of getLogs
pollEventsGotBlockNumber(poll) ==
    /\ poll.at = "getBlockNumber"
    /\ LET currentBlock == getBlockNumber IN
       IF currentBlock <= lastProcessedBlock
       THEN polls' = polls (-) SetToBag({poll})
       ELSE polls' = (polls (-) SetToBag({poll})) (+)
                         SetToBag({PollAwaiting("getLogs", currentBlock,
                                                lastProcessedBlock + 1)})
    /\ UNCHANGED <<isListening, pollInterval, lastProcessedBlock, intervalId,
                   timers, starting, chain, emitted, runStart>>

pollEventsReadFails_StopsPolling(poll) ==
    /\ poll.at \in {"getBlockNumber", "getLogs"}
    /\ polls' = polls (-) SetToBag({poll})
    /\ emitted' = Append(emitted, Log(NoBlock, ERROR))
    /\ isListening' = FALSE
    /\ intervalId' = <<>>
    /\ timers' = {}
    /\ UNCHANGED <<pollInterval, lastProcessedBlock, starting, chain, runStart>>

\* a provider read of pollEvents rejects: pollEvents rejects, and the catch
\* of the interval callback emits the error
pollEventsReadFails(poll) ==
    /\ poll.at \in {"getBlockNumber", "getLogs"}
    /\ polls' = polls (-) SetToBag({poll})
    /\ emitted' = Append(emitted, Log(NoBlock, ERROR))
    /\ UNCHANGED <<isListening, pollInterval, lastProcessedBlock, intervalId,
                   timers, starting, chain, runStart>>

processLog_SilentOnParseError(log, throws) ==
    IF log.name \in EventNames
    THEN IF throws THEN <<Log(log.blockNumber, ERROR)>>
         ELSE <<Log(log.blockNumber, log.name)>>
    ELSE <<>>

\* parseLog and the switch on its name, inside try/catch: the emits that
\* returned.  A known event is emitted to its subscriber; if parseLog throws,
\* or the subscriber's callback throws out of emit, the catch emits the
\* error instead; a null parse emits nothing.
processLog(log, throws) ==
    IF log.name = "Undecodable" THEN <<Log(log.blockNumber, ERROR)>>
    ELSE IF log.name \in EventNames
    THEN IF throws THEN <<Log(log.blockNumber, ERROR)>>
         ELSE <<Log(log.blockNumber, log.name)>>
    ELSE <<>>

RECURSIVE processLogs(_, _)
\* for (const log of logs) await this.processLog(log); throwing holds the
\* blocks whose log the subscriber's callback throws on
processLogs(logs, throwing) ==
    IF logs = <<>> THEN <<>>
    ELSE processLog(Head(logs), Head(logs).blockNumber \in throwing)
             \o processLogs(Tail(logs), throwing)

\* pollEvents from the reply of getLogs to its end
pollEventsGotLogs(poll, throwing) ==
    /\ poll.at = "getLogs"
    /\ LET logs == getLogs(poll.fromBlock, poll.currentBlock) IN
       emitted' = emitted \o processLogs(logs, throwing)
    /\ lastProcessedBlock' = poll.currentBlock
    /\ polls' = polls (-) SetToBag({poll})
    /\ UNCHANGED <<isListening, pollInterval, intervalId, timers, starting,
                   chain, runStart>>

(***************************************************************************)
(* EventMonitor: getHistoricalEvents.                                      *)
(***************************************************************************)
\* an optional bigint of EventFilterOptions: <<>> when left out, <<v>> when
\* given; !option holds for undefined and for 0n
Falsy(option) == option = <<>> \/ option = <<0>>

\* an optional block of EventFilterOptions: undefined and 0 are falsy, a
\* positive number and 'latest' are not
FalsyBlock(block) ==
    block.type = "undefined" \/ (block.type = "number" /\ block.value = 0)

\* const fromBlock = options.fromBlock || 0
historicalFromBlock(options) ==
    IF FalsyBlock(options.fromBlock) THEN [type |-> "number", value |-> 0]
    ELSE options.fromBlock

\* const toBlock = options.toBlock || 'latest'
historicalToBlock(options) ==
    IF FalsyBlock(options.toBlock) THEN [type |-> "latest", value |-> 0]
    ELSE options.toBlock

\* the block a provider at tip reads a block option as
BlockOf(block, tip) == IF block.type = "latest" THEN tip ELSE block.value

\* provider.getLogs(filter) of a provider at tip whose contract left the
\* logs all: those in the blocks fromBlock .. toBlock, in log order
getLogsOf(all, tip, fromBlock, toBlock) ==
    SelectSeq(all, LAMBDA log :
        /\ BlockOf(fromBlock, tip) <= log.blockNumber
        /\ log.blockNumber <= BlockOf(toBlock, tip))

\* !options.agentId || parsedLog.args.agentId === options.agentId
matchesAgentFilter(args, options) ==
    Falsy(options.agentId) \/ args.agentId = options.agentId[1]

matchesMessageFilter(args, options) ==
    IF ~Falsy(options.messageId) /\ args.messageId # options.messageId[1]
    THEN FALSE
    ELSE IF ~Falsy(options.senderAgentId)
            /\ args.senderAgentId # options.senderAgentId[1]
    THEN FALSE
    ELSE IF ~Falsy(options.receiverAgentId)
            /\ args.receiverAgentId # options.receiverAgentId[1]
    THEN FALSE
    ELSE TRUE

\* the six arrays getHistoricalEvents returns: each log that parses to an
\* event of a kind and passes the kind's filter is pushed onto the kind's
\* array; a log that does not parse is passed over
getHistoricalEvents(all, tip, options) ==
    LET logs == getLogsOf(all, tip, historicalFromBlock(options),
                          historicalToBlock(options))
        Pushed(name, Matches(_, _)) ==
            SelectSeq(logs, LAMBDA log :
                log.name = name /\ Matches(log.args, options))
    IN [agentRegistered |-> Pushed("AgentRegistered", matchesAgentFilter),
        messageSent |-> Pushed("MessageSent", matchesMessageFilter),
        messageResponded |-> Pushed("MessageResponded", matchesMessageFilter),
        agentUpdated |-> Pushed("AgentUpdated", matchesAgentFilter),
        agentRated |-> Pushed("AgentRated", matchesAgentFilter),
        trustScoreUpdated |-> Pushed("TrustScoreUpdated", matchesAgentFilter)]

\* filter options: every id the contract assigns, and the option left out
IdOptions == {<<>>} \cup {<<n>> : n \in AgentIdArgs}
MessageIdOptions == {<<>>} \cup {<<n>> : n \in 0..(MaxMessages - 1)}
NoBlockOption == [type |-> "undefined", value |-> 0]
NumberOption(n) == [type |-> "number", value |-> n]

\* the logs of the reputation contract as a provider returns them: one
\* transaction per block, and a rating's two events in one block
ledgerLogs ==
    [k \in 1..Len(events) |->
        [blockNumber |-> Cardinality({j \in 1..k :
                             events[j].kind # "TrustScoreUpdated"}),
         name |-> events[k].kind,
         args |-> events[k]]]

(***************************************************************************)
(* The steps of the monitor and of its environment.                        *)
(***************************************************************************)
StartMonitoring(options) ==
    /\ startMonitoringThrows = "OK" => Cardinality(timers) + starting < MaxTimers
    /\ startMonitoring(options)
    /\ UNCHANGED ledgerVars
    /\ UNCHANGED otherVars

StartMonitoringResumes ==
    /\ startMonitoringResumes
    /\ UNCHANGED ledgerVars
    /\ UNCHANGED otherVars

StopMonitoring ==
    /\ stopMonitoring
    /\ UNCHANGED ledgerVars
    /\ UNCHANGED otherVars

\* polls are begun until more logs were emitted than the chain can hold
IntervalCallback(h) ==
    /\ BagCardinality(polls) < MaxPolls
    /\ Len(emitted) <= MaxBlocks
    /\ intervalCallback(h)
    /\ UNCHANGED ledgerVars
    /\ UNCHANGED otherVars

PollEventsGotBlockNumber(poll) ==
    /\ pollEventsGotBlockNumber(poll)
    /\ UNCHANGED ledgerVars
    /\ UNCHANGED otherVars

\* the subscribers' callbacks return
PollEventsGotLogs(poll) ==
    /\ pollEventsGotLogs(poll, {})
    /\ UNCHANGED ledgerVars
    /\ UNCHANGED otherVars

\* the subscribers' callbacks throw on the logs of the blocks in throwing
PollEventsGotLogsThrowing(poll, throwing) ==
    /\ throwing # {}
    /\ pollEventsGotLogs(poll, throwing)
    /\ UNCHANGED ledgerVars
    /\ UNCHANGED otherVars

\* reads fail while fewer than MaxReadFailures errors were emitted
PollEventsReadFails(poll) ==
    /\ Cardinality({i \in 1..Len(emitted) : emitted[i] = Log(NoBlock, ERROR)})
           < MaxReadFailures
    /\ pollEventsReadFails(poll)
    /\ UNCHANGED ledgerVars
    /\ UNCHANGED otherVars

\* a block with one log of the contract is mined
NewBlock ==
    /\ Len(chain) < MaxBlocks
    /\ chain' = Append(chain, Log(Len(chain) + 1, LogNameAt(Len(chain) + 1)))
    /\ UNCHANGED <<isListening, pollInterval, lastProcessedBlock, intervalId,
                   timers, starting, polls, emitted, runStart>>
    /\ UNCHANGED ledgerVars
    /\ UNCHANGED otherVars

\* a block with one log of the contract that parseLog does not parse
NewUnparsedBlock(name) ==
    /\ Len(chain) < MaxBlocks
    /\ chain' = Append(chain, Log(Len(chain) + 1, name))
    /\ UNCHANGED <<isListening, pollInterval, lastProcessedBlock, intervalId,
                   timers, starting, polls, emitted, runStart>>
    /\ UNCHANGED ledgerVars
    /\ UNCHANGED otherVars

MonitorNext ==
    \/ \E fb \in FromBlockArgs, ms \in PollIntervalArgs :
           StartMonitoring([fromBlock |-> fb, pollInterval |-> ms])
    \/ StartMonitoringResumes
    \/ StopMonitoring
    \/ \E h \in timers : IntervalCallback(h)
    \/ \E poll \in BagToSet(polls) : PollEventsGotBlockNumber(poll)
    \/ \E poll \in BagToSet(polls) : PollEventsGotLogs(poll)
    \/ NewBlock

MonitorSpec == Init /\ [][MonitorNext]_vars

\* one monitoring run: startMonitoring is called once and never stopped
MonitorRunNext ==
    \/ \E fb \in FromBlockArgs, ms \in PollIntervalArgs :
           /\ starting = 0
           /\ StartMonitoring([fromBlock |-> fb, pollInterval |-> ms])
    \/ StartMonitoringResumes
    \/ \E h \in timers : IntervalCallback(h)
    \/ \E poll \in BagToSet(polls) : PollEventsGotBlockNumber(poll)
    \/ \E poll \in BagToSet(polls) : PollEventsGotLogs(poll)
    \/ NewBlock

MonitorRunSpec == Init /\ [][MonitorRunNext]_vars

\* runs one after the other: startMonitoring is not called again while an
\* earlier call is awaiting, so a timer is alive only while isListening and
\* every pollEvents call begins while isListening
MonitorSerialNext ==
    \/ \E fb \in FromBlockArgs, ms \in PollIntervalArgs :
           /\ starting = 0
           /\ StartMonitoring([fromBlock |-> fb, pollInterval |-> ms])
    \/ StartMonitoringResumes
    \/ StopMonitoring
    \/ \E h \in timers : IntervalCallback(h)
    \/ \E poll \in BagToSet(polls) : PollEventsGotBlockNumber(poll)
    \/ \E poll \in BagToSet(polls) : PollEventsGotLogs(poll)
    \/ NewBlock

MonitorSerialSpec == Init /\ [][MonitorSerialNext]_vars

\* one monitoring run in which logs may fail to parse and subscribers'
\* callbacks may throw
MonitorFaultNext ==
    \/ \E fb \in FromBlockArgs :
           /\ starting = 0
           /\ StartMonitoring([fromBlock |-> fb, pollInterval |-> 0])
    \/ StartMonitoringResumes
    \/ \E h \in timers : IntervalCallback(h)
    \/ \E poll \in BagToSet(polls) : PollEventsGotBlockNumber(poll)
    \/ \E poll \in BagToSet(polls) : PollEventsGotLogs(poll)
    \/ \E poll \in BagToSet(polls) :
           \E throwing \in SUBSET (poll.fromBlock..poll.currentBlock) :
               PollEventsGotLogsThrowing(poll, throwing)
    \/ NewBlock
    \/ \E name \in UnparsedNames : NewUnparsedBlock(name)

MonitorFaultSpec == Init /\ [][MonitorFaultNext]_vars

\* the log of a block after the start block is still to be emitted
ToBeEmitted ==
    \E b \in (runStart + 1)..MaxBlocks :
        \A i \in 1..Len(emitted) : emitted[i] # Log(b, LogNameAt(b))

\* the timer fires, with fewer than MaxPolls calls in flight, for as long as
\* a log is still to be emitted
IntervalCallbackAlways(h) ==
    /\ BagCardinality(polls) < MaxPolls
    /\ ToBeEmitted
    /\ intervalCallback(h)
    /\ UNCHANGED ledgerVars
    /\ UNCHANGED otherVars

\* one monitoring run, never stopped, in which provider reads may fail
MonitorRetryNext ==
    \/ \E fb \in FromBlockArgs :
           /\ starting = 0
           /\ StartMonitoring([fromBlock |-> fb, pollInterval |-> 0])
    \/ StartMonitoringResumes
    \/ \E h \in timers : IntervalCallbackAlways(h)
    \/ \E poll \in BagToSet(polls) : PollEventsGotBlockNumber(poll)
    \/ \E poll \in BagToSet(polls) : PollEventsGotLogs(poll)
    \/ \E poll \in BagToSet(polls) : PollEventsReadFails(poll)
    \/ NewBlock

\* setInterval keeps firing the callback of a timer that is not cleared, and
\* every provider read is answered, by a reply or a rejection; reads fail
\* at most MaxReadFailures times, so they succeed in the end
MonitorRetryFairness ==
    /\ WF_vars(\E h \in timers : IntervalCallbackAlways(h))
    /\ WF_vars(\E poll \in BagToSet(polls) :
                   \/ PollEventsGotBlockNumber(poll)
                   \/ PollEventsGotLogs(poll)
                   \/ PollEventsReadFails(poll))

MonitorRetrySpec == Init /\ [][MonitorRetryNext]_vars /\ MonitorRetryFairness

(***************************************************************************)
(* A second EventMonitor on the same contract.  Every AgentSDK constructs  *)
(* its own EventMonitor, whose fields are instance fields; its handlers    *)
(* are the handlers above with this bound to the second instance.  The     *)
(* chain and the runtime's timers are the only state both can reach.       *)
(***************************************************************************)
\* the fields of the first instance, and what it awaits and has emitted
firstFields == <<isListening, pollInterval, lastProcessedBlock, intervalId,
                 starting, polls, emitted, runStart>>
\* the same of the second instance
otherFields == <<otherIsListening, otherPollInterval, otherLastProcessedBlock,
                 otherIntervalId, otherStarting, otherPolls, otherEmitted,
                 otherRunStart>>

otherStartMonitoringThrows ==
    IF otherIsListening THEN "Event monitoring is already active" ELSE "OK"

otherStartPolling ==
    /\ otherIntervalId' = <<NewTimer>>
    /\ timers' = timers \cup {NewTimer}
    /\ otherHandles' = otherHandles \cup {NewTimer}

otherStartMonitoring(options) ==
    IF otherStartMonitoringThrows # "OK"
    THEN UNCHANGED <<otherVars, timers>>
    ELSE /\ otherPollInterval' = IF options.pollInterval # 0
                                 THEN options.pollInterval ELSE 5000
         /\ IF options.fromBlock.type = "number"
            THEN /\ otherLastProcessedBlock' = options.fromBlock.value
                 /\ otherIsListening' = TRUE
                 /\ otherStartPolling
                 /\ otherEmitted' = <<>>
                 /\ otherRunStart' = options.fromBlock.value
                 /\ UNCHANGED <<otherStarting, otherPolls>>
            ELSE /\ otherStarting' = otherStarting + 1
                 /\ UNCHANGED <<otherIsListening, otherLastProcessedBlock,
                                otherIntervalId, otherHandles, timers,
                                otherPolls, otherEmitted, otherRunStart>>

otherStartMonitoringResumes ==
    /\ otherStarting > 0
    /\ otherStarting' = otherStarting - 1
    /\ otherLastProcessedBlock' = getBlockNumber
    /\ otherIsListening' = TRUE
    /\ otherStartPolling
    /\ otherEmitted' = <<>>
    /\ otherRunStart' = getBlockNumber
    /\ UNCHANGED <<otherPollInterval, otherPolls>>

otherStopMonitoring_ClearsEveryTimer ==
    /\ otherIsListening' = FALSE
    /\ timers' = {}
    /\ otherHandles' = {}
    /\ otherIntervalId' = <<>>
    /\ UNCHANGED <<otherPollInterval, otherLastProcessedBlock, otherStarting,
                   otherPolls, otherEmitted, otherRunStart>>

otherStopMonitoring ==
    /\ otherIsListening' = FALSE
    /\ IF otherIntervalId # <<>>
       THEN /\ timers' = timers \ {otherIntervalId[1]}
            /\ otherHandles' = otherHandles \ {otherIntervalId[1]}
            /\ otherIntervalId' = <<>>
       ELSE UNCHANGED <<otherIntervalId, otherHandles, timers>>
    /\ UNCHANGED <<otherPollInterval, otherLastProcessedBlock, otherStarting,
                   otherPolls, otherEmitted, otherRunStart>>

otherIntervalCallback(h) ==
    /\ h \in otherHandles
    /\ otherPolls' = otherPolls (+)
                         SetToBag({PollAwaiting("getBlockNumber", 0, 0)})
    /\ UNCHANGED <<otherIsListening, otherPollInterval,
                   otherLastProcessedBlock, otherIntervalId, otherHandles,
                   timers, otherStarting, otherEmitted, otherRunStart>>

otherPollEventsGotBlockNumber(poll) ==
    /\ poll.at = "getBlockNumber"
    /\ LET currentBlock == getBlockNumber IN
       IF currentBlock <= otherLastProcessedBlock
       THEN otherPolls' = otherPolls (-) SetToBag({poll})
       ELSE otherPolls' = (otherPolls (-) SetToBag({poll})) (+)
                              SetToBag({PollAwaiting("getLogs", currentBlock,
                                            otherLastProcessedBlock + 1)})
    /\ UNCHANGED <<otherIsListening, otherPollInterval,
                   otherLastProcessedBlock, otherIntervalId, otherHandles,
                   timers, otherStarting, otherEmitted, otherRunStart>>

otherPollEventsReadFails(poll) ==
    /\ poll.at \in {"getBlockNumber", "getLogs"}
    /\ otherPolls' = otherPolls (-) SetToBag({poll})
    /\ otherEmitted' = Append(otherEmitted, Log(NoBlock, ERROR))
    /\ UNCHANGED <<otherIsListening, otherPollInterval,
                   otherLastProcessedBlock, otherIntervalId, otherHandles,
                   timers, otherStarting, otherRunStart>>

otherPollEventsGotLogs(poll, throwing) ==
    /\ poll.at = "getLogs"
    /\ LET logs == getLogs(poll.fromBlock, poll.currentBlock) IN
       otherEmitted' = otherEmitted \o processLogs(logs, throwing)
    /\ otherLastProcessedBlock' = poll.currentBlock
    /\ otherPolls' = otherPolls (-) SetToBag({poll})
    /\ UNCHANGED <<otherIsListening, otherPollInterval, otherIntervalId,
                   otherHandles, timers, otherStarting, otherRunStart>>

\* the steps of the second instance; each leaves the first one's fields, the
\* chain and the ledger alone
OtherStartMonitoring(options) ==
    /\ otherStartMonitoringThrows = "OK"
           => Cardinality(timers) + starting + otherStarting < MaxTimers
    /\ otherStartMonitoring(options)
    /\ UNCHANGED <<firstFields, chain, ledgerVars>>

OtherStartMonitoringResumes ==
    /\ otherStartMonitoringResumes
    /\ UNCHANGED <<firstFields, chain, ledgerVars>>

OtherStopMonitoring ==
    /\ otherStopMonitoring
    /\ UNCHANGED <<firstFields, chain, ledgerVars>>

OtherIntervalCallback(h) ==
    /\ BagCardinality(otherPolls) < MaxPolls
    /\ Len(otherEmitted) <= MaxBlocks
    /\ otherIntervalCallback(h)
    /\ UNCHANGED <<firstFields, chain, ledgerVars>>

OtherPollEventsGotBlockNumber(poll) ==
    /\ otherPollEventsGotBlockNumber(poll)
    /\ UNCHANGED <<firstFields, chain, ledgerVars>>

OtherPollEventsGotLogs(poll) ==
    /\ otherPollEventsGotLogs(poll, {})
    /\ UNCHANGED <<firstFields, chain, ledgerVars>>

OtherPollEventsReadFails(poll) ==
    /\ Cardinality({i \in 1..Len(otherEmitted) :
                        otherEmitted[i] = Log(NoBlock, ERROR)})
           < MaxReadFailures
    /\ otherPollEventsReadFails(poll)
    /\ UNCHANGED <<firstFields, chain, ledgerVars>>

\* a call of startMonitoring on an instance that has no call awaiting and no
\* poll of an earlier run in flight
FirstMayStart == starting = 0 /\ polls = EmptyBag
OtherMayStart == otherStarting = 0 /\ otherPolls = EmptyBag

\* two monitors of one contract, started, polling, failing and stopped in
\* any order, each beginning a poll when its last one has ended; the first
\* with the default interval, the second with its own
TwoMonitorsNext ==
    \/ \E fb \in FromBlockArgs :
           /\ FirstMayStart
           /\ StartMonitoring([fromBlock |-> fb, pollInterval |-> 0])
    \/ StartMonitoringResumes
    \/ StopMonitoring
    \/ \E h \in timers \ otherHandles :
           /\ polls = EmptyBag
           /\ IntervalCallback(h)
    \/ \E poll \in BagToSet(polls) : PollEventsGotBlockNumber(poll)
    \/ \E poll \in BagToSet(polls) : PollEventsGotLogs(poll)
    \/ \E poll \in BagToSet(polls) : PollEventsReadFails(poll)
    \/ \E fb \in FromBlockArgs :
           /\ OtherMayStart
           /\ OtherStartMonitoring([fromBlock |-> fb, pollInterval |-> 3000])
    \/ OtherStartMonitoringResumes
    \/ OtherStopMonitoring
    \/ \E h \in otherHandles :
           /\ otherPolls = EmptyBag
           /\ OtherIntervalCallback(h)
    \/ \E poll \in BagToSet(otherPolls) : OtherPollEventsGotBlockNumber(poll)
    \/ \E poll \in BagToSet(otherPolls) : OtherPollEventsGotLogs(poll)
    \/ \E poll \in BagToSet(otherPolls) : OtherPollEventsReadFails(poll)
    \/ NewBlock

TwoMonitorsSpec == Init /\ [][TwoMonitorsNext]_vars

(***************************************************************************)
(* Properties of the ledger.                                               *)
(***************************************************************************)
AssignedIds == 0..(nextId - 1)

\* the log holds an AgentRated entry for target t by rater r
RatedInLog(t, r) == \E k \in 1..Len(events) :
    /\ events[k].kind = "AgentRated"
    /\ events[k].agentId = t
    /\ events[k].raterAgentId = r

\* C1: every registered agent's trustScore is in 0..100, is 100 while it has
\* no interactions, and is floor(positiveRatings * 100 / totalInteractions)
\* once it has some.
C1_TrustScoreFormula ==
    \A a \in AssignedIds :
        LET rep == getAgentReputation(a) IN
        /\ rep[1] \in 0..100
        /\ rep[2] = 0 => rep[1] = 100
        /\ rep[2] > 0 => rep[1] = (rep[3] * 100) \div rep[2]

C1_Witness ==
    \E a \in AssignedIds : getAgentReputation(a) = <<50, 2, 1>>

\* C2: an address bound to an existing agent r (r = 0 included) that rates an
\* existing target t # r it has not rated yet is not rejected: rateAgent
\* reverts with RATER_NOT_REGISTERED only for an address that never registered.
C2_BoundRaterIsAccepted ==
    \A s \in Identities, t \in AssignedIds :
        (Registered(s) /\ t # agentIds[s] /\ ~hasRated[t][agentIds[s]])
            => rateAgentRequire(s, t) = "OK"

\* C3: a registered agent rating itself is rejected with CANNOT_RATE_SELF,
\* whatever its id (id 0 included).
C3_SelfRatingIsCannotRateSelf ==
    \A s \in Identities :
        Registered(s) => rateAgentRequire(s, agentIds[s]) = "CANNOT_RATE_SELF"

\* Repeated rating.  Once rater r has rated target t, every later rateAgent call that
\* resolves to the same (t, r) is rejected with ALREADY_RATED, and no step in
\* such a state changes t's reputation, the stored rating or the log through
\* that call.
C4_RejectedInState ==
    \A s \in Identities, t \in AgentIdArgs :
        RatedInLog(t, agentIds[s]) => rateAgentRequire(s, t) = "ALREADY_RATED"

C4_RejectedStep ==
    \/ UNCHANGED <<agents, hasRated, ratingValue, events>>
    \/ \A s \in Identities, t \in AgentIdArgs :
           RatedInLog(t, agentIds[s]) =>
               \A p \in BOOLEAN, c \in Comments : ~rateAgent(s, t, p, c)

\* C4: in every state a call resolving to an already rated (t, r) is rejected
\* with ALREADY_RATED, and no step of such a call changes reputation, ratings
\* or the log.
C4_SecondRatingRejected == [](C4_RejectedInState) /\ [][C4_RejectedStep]_vars

C4_Witness ==
    \E s \in Identities, t \in AssignedIds :
        /\ Registered(s)
        /\ RatedInLog(t, agentIds[s])
        /\ ratingValue[t][agentIds[s]]
        /\ rateAgentRequire(s, t) = "ALREADY_RATED"

\* Registration.  A registerAgent call returns the count before the call and raises the
\* count by exactly one; the agent is stored under that id with trust score
\* 100 and no interactions, and no id assigned earlier is touched.
C5_RegisterStep ==
    /\ \A s \in Identities :
          registerAgent(s, Profile(s)[1], Profile(s)[2], Profile(s)[3])
              => countAgents' = countAgents + 1
    /\ countAgents' # countAgents =>
          /\ countAgents' = countAgents + 1
          /\ returned' = <<countAgents>>
          /\ \E s \in Identities :
                agents'[countAgents] =
                    Agent(countAgents, Profile(s)[1], Profile(s)[2], Profile(s)[3],
                          100, 0, 0)
          /\ \A i \in AssignedIds : agents'[i] = agents[i]

C5_UniqueIds ==
    /\ \A i \in AssignedIds : agents[i].id = i
    /\ returned # NoReturn => returned[1] = countAgents - 1

\* C5: ids are 0, 1, 2, ... in call order and never reused, and every
\* registerAgent step returns the old count and raises the count by one.
C5_RegisterAssignsNextId == [](C5_UniqueIds) /\ [][C5_RegisterStep]_vars

C5_Witness ==
    /\ countAgents = 3
    /\ returned = <<2>>
    /\ getAgentReputation(2) = <<100, 0, 0>>

\* C6: getTopRatedAgents returns a permutation of listAgents (same length,
\* every agent exactly once, fields unchanged) with trustScore non-increasing.
C6_TopRatedSortedPermutation ==
    LET top == getTopRatedAgents IN
    /\ Len(top) = Len(listAgents)
    /\ \A k \in 1..Len(listAgents) :
          Cardinality({j \in 1..Len(top) : top[j] = listAgents[k]}) = 1
    /\ \A j \in 1..(Len(top) - 1) : top[j].trustScore >= top[j + 1].trustScore

C6_Witness ==
    /\ countAgents = 3
    /\ getTopRatedAgents # listAgents
    /\ \E j \in 1..2 :
          getTopRatedAgents[j].trustScore > getTopRatedAgents[j + 1].trustScore

\* C7: agents with equal trustScore appear in getTopRatedAgents in ascending
\* id order.
C7_TiesInRegistrationOrder ==
    LET top == getTopRatedAgents IN
    \A i \in 1..Len(top), j \in 1..Len(top) :
        (i < j /\ top[i].trustScore = top[j].trustScore) => top[i].id < top[j].id

\* Events.  No ledger state change occurs without its event: on either deployment a
\* step that registers an agent appends exactly one AgentRegistered carrying
\* the assigned id, the caller, name, role and ipfsHash; a send appends one
\* MessageSent; a rating appends AgentRated and TrustScoreUpdated; nothing
\* else is ever appended.
EventStep(log, logNext, count, countNext, binding, bindingNext, msgs, msgsNext) ==
    /\ countNext # count =>
          /\ Len(logNext) = Len(log) + 1
          /\ SubSeq(logNext, 1, Len(log)) = log
          /\ \E s \in Identities :
                /\ bindingNext[s] = count
                /\ logNext[Len(logNext)] =
                       AgentRegistered(count, s, Profile(s)[1],
                                       roleString(Profile(s)[2]), Profile(s)[3])
    /\ msgsNext # msgs =>
          /\ Len(logNext) = Len(log) + 1
          /\ SubSeq(logNext, 1, Len(log)) = log
          /\ logNext[Len(logNext)].kind = "MessageSent"
          /\ logNext[Len(logNext)].messageId = msgs
    /\ logNext # log =>
          /\ Len(logNext) > Len(log)
          /\ SubSeq(logNext, 1, Len(log)) = log
          /\ \A k \in (Len(log) + 1)..Len(logNext) :
                logNext[k].kind \in {"AgentRegistered", "MessageSent",
                                     "MessageResponded", "AgentRated",
                                     "TrustScoreUpdated"}

C8_RepEventStep ==
    /\ EventStep(events, events', nextId, nextId', agentIds, agentIds',
                 messageIdCounter, messageIdCounter')
    /\ (agents' # agents \/ hasRated' # hasRated \/ ratingValue' # ratingValue)
           => events' # events
    /\ hasRated' # hasRated =>
          /\ Len(events') = Len(events) + 2
          /\ events'[Len(events) + 1].kind = "AgentRated"
          /\ events'[Len(events) + 2].kind = "TrustScoreUpdated"

C8_BaseEventStep ==
    /\ EventStep(baseEvents, baseEvents', baseNextId, baseNextId',
                 baseAgentIds, baseAgentIds',
                 baseMessageIdCounter, baseMessageIdCounter')
    /\ baseAgents' # baseAgents => baseEvents' # baseEvents

\* C8: on both deployments every step that changes the ledger appends the
\* events of its operation, and nothing else is appended.
C8_EveryChangeHasItsEvent == [][C8_RepEventStep /\ C8_BaseEventStep]_vars

\* Failure.  A failing call (sendMessageToAgent or respondToAgent to an unknown
\* agent, rateAgent failing any of its four requires) leaves agents, bindings,
\* nextId, the message counter, the ratings and the log as they were: no step
\* that changes any of them is the step of a call whose require fails.
C9_FailedStep ==
    \/ UNCHANGED repVars
    \/ /\ \A a \in AgentIdArgs :
              ~(nextId > a) =>
                  \A s \in Identities :
                      /\ \A m \in Bodies : ~sendMessageToAgent(s, a, m)
                      /\ \A mid \in MessageIdArgs, m \in Responses :
                             ~respondToAgent(s, mid, a, m)
       /\ \A s \in Identities, a \in AgentIdArgs :
              rateAgentRequire(s, a) # "OK" =>
                  \A p \in BOOLEAN, c \in Comments : ~rateAgent(s, a, p, c)

\* C9: no step of a failing sendMessageToAgent, respondToAgent or rateAgent
\* call changes the ledger.
C9_FailureChangesNothing == [][C9_FailedStep]_vars

C9_Witness ==
    /\ Len(events) > 0
    /\ \A e \in {"RATER_NOT_REGISTERED", "AGENT_NOT_FOUND", "CANNOT_RATE_SELF",
                 "ALREADY_RATED"} :
          \E s \in Callers, a \in AgentIdArgs : rateAgentRequire(s, a) = e
    /\ \E a \in AgentIdArgs : ~(nextId > a)

\* Rating events.  A successful rateAgent(t, positive, comment) by rater r appends
\* AgentRated(t, r, positive) immediately followed by TrustScoreUpdated(t,
\* score, total), where score and total are the values stored for t after the
\* call; the two entries never occur apart.
C10_RatedStep ==
    hasRated' # hasRated =>
        \E t \in AssignedIds, r \in AssignedIds, c \in Comments :
            /\ hasRated'[t][r] /\ ~hasRated[t][r]
            /\ events' = events \o
                   << AgentRated(t, r, ratingValue'[t][r], c),
                      TrustScoreUpdated(t, agents'[t].trustScore,
                                        agents'[t].totalInteractions) >>

C10_LogPairs ==
    \A k \in 1..Len(events) :
        /\ events[k].kind = "AgentRated" =>
              /\ k < Len(events)
              /\ events[k + 1].kind = "TrustScoreUpdated"
              /\ events[k + 1].agentId = events[k].agentId
        /\ events[k].kind = "TrustScoreUpdated" =>
              /\ k > 1
              /\ events[k - 1].kind = "AgentRated"

\* C10: every rating step appends AgentRated then TrustScoreUpdated with the
\* stored score and count, and the log never holds one without the other.
C10_RatedThenTrustScoreUpdated == [](C10_LogPairs) /\ [][C10_RatedStep]_vars

C10_Witness ==
    /\ Len(events) >= 2
    /\ events[Len(events) - 1].kind = "AgentRated"
    /\ ~events[Len(events) - 1].positive
    /\ events[Len(events)] =
           TrustScoreUpdated(events[Len(events) - 1].agentId, 50, 2)

(***************************************************************************)
(* Stored ratings and the reputation views.                                *)
(***************************************************************************)
\* the positive flag of the first AgentRated entry of the log for (t, r)
FirstRatingInLog(t, r) ==
    LET first == CHOOSE k \in 1..Len(events) :
                     /\ events[k].kind = "AgentRated"
                     /\ events[k].agentId = t
                     /\ events[k].raterAgentId = r
                     /\ \A j \in 1..(k - 1) :
                            ~(/\ events[j].kind = "AgentRated"
                              /\ events[j].agentId = t
                              /\ events[j].raterAgentId = r)
    IN events[first].positive

C28_RatingViews ==
    \A t \in AgentIdArgs, r \in AgentIdArgs :
        /\ hasAgentRated(t, r) <=> RatedInLog(t, r)
        /\ ~hasAgentRated(t, r) => getRating(t, r) = "NO_RATING_EXISTS"
        /\ hasAgentRated(t, r) => getRating(t, r) = FirstRatingInLog(t, r)

C28_RatingKeptStep ==
    \A t \in AgentIdArgs, r \in AgentIdArgs :
        hasRated[t][r] =>
            /\ hasRated'[t][r]
            /\ ratingValue'[t][r] = ratingValue[t][r]

\* C28: hasAgentRated(t, r) is true exactly when a rateAgent on t by r has
\* succeeded; getRating(t, r) reverts with NO_RATING_EXISTS exactly when it is
\* false and otherwise returns the positive flag of the first successful
\* rating, which no later step updates or deletes.
C28_RatingRecordedOnceForever ==
    [](C28_RatingViews) /\ [][C28_RatingKeptStep]_vars

C28_Witness ==
    \E t \in AssignedIds, r \in AssignedIds :
        /\ hasAgentRated(t, r)
        /\ getRating(t, r) = FALSE
        /\ events[Len(events)].kind = "AgentRegistered"
        /\ \E u \in AssignedIds : ~hasAgentRated(u, r)

\* the ids r whose rating of agent a is recorded
RatersOf(a) == {r \in AgentIdArgs : hasAgentRated(a, r)}

\* C29: getAgentReputation(agentId) reverts with AGENT_NOT_FOUND exactly when
\* agentId >= countAgents; otherwise it returns the stored trustScore,
\* totalInteractions and positiveRatings, which are (100, 0, 0) for an agent
\* nobody has rated.
C29_ReputationOfAssignedIdsOnly ==
    \A a \in AgentIdArgs :
        LET rep == getAgentReputation(a) IN
        /\ Len(rep) = 1 <=> a >= countAgents
        /\ a >= countAgents => rep = <<"AGENT_NOT_FOUND">>
        /\ a < countAgents =>
               /\ rep = <<agents[a].trustScore, agents[a].totalInteractions,
                          agents[a].positiveRatings>>
               /\ RatersOf(a) = {} => rep = <<100, 0, 0>>

C29_Witness ==
    /\ countAgents = 2
    /\ getAgentReputation(0) = <<0, 1, 0>>
    /\ getAgentReputation(1) = <<100, 0, 0>>
    /\ getAgentReputation(2) = <<"AGENT_NOT_FOUND">>

\* C30: for every agent, positiveRatings <= totalInteractions,
\* totalInteractions is the number of rater ids recorded in hasRated for it,
\* and positiveRatings is the number of those whose stored rating is positive.
C30_CountsMatchStoredRatings ==
    \A a \in AssignedIds :
        /\ agents[a].positiveRatings <= agents[a].totalInteractions
        /\ agents[a].totalInteractions = Cardinality(RatersOf(a))
        /\ agents[a].positiveRatings =
               Cardinality({r \in RatersOf(a) : getRating(a, r)})

C30_Witness ==
    \E a \in AssignedIds :
        /\ agents[a].totalInteractions = 2
        /\ agents[a].positiveRatings = 1
        /\ Cardinality(RatersOf(a)) = 2

(***************************************************************************)
(* Messaging.                                                              *)
(***************************************************************************)
\* the revert strings the error kind AgentNotFound stands for
AgentNotFound == {"AGENT_NOT_FOUND", "RECV_AGENT_NOT_FOUND"}

C11_SendRequire ==
    \A a \in AgentIdArgs :
        /\ a >= nextId <=> sendMessageToAgentRequire(a) \in AgentNotFound
        /\ a < nextId <=> sendMessageToAgentRequire(a) = "OK"

C11_SendStep ==
    \/ UNCHANGED <<events, baseEvents>>
    \/ \A s \in Identities, a \in AgentIdArgs, m \in Bodies :
           sendMessageToAgent(s, a, m) =>
               /\ a < nextId
               /\ Len(events') = Len(events) + 1
               /\ events'[Len(events')].kind = "MessageSent"
               /\ events'[Len(events')].receiverAgentId = a
               /\ events'[Len(events')].message = m

C11_SendNeverStuck ==
    \A s \in Identities, a \in AgentIdArgs, m \in Bodies :
        a < nextId => ENABLED (sendMessageToAgent(s, a, m) /\ events' # events)

\* C11: sendMessageToAgent reverts with AGENT_NOT_FOUND exactly when
\* agentId >= nextId; for every other receiver, every sender (bound or not,
\* the receiver itself included) and every body (the empty one included) the
\* call is accepted and appends MessageSent.
C11_SendFailsOnlyOnUnknownReceiver ==
    [](C11_SendRequire /\ C11_SendNeverStuck) /\ [][C11_SendStep]_vars

\* a self send with an empty body, then a send while address 2 is unbound
C11_Witness ==
    /\ Len(events) = 3
    /\ events[2] = MessageSent(0, 0, 0, "")
    /\ events[3] = MessageSent(1, 0, 0, "hi")
    /\ agentIds[1] = 0 /\ ~Registered(2)

\* the entries of one kind, in log order
SelectKind(log, kind) == SelectSeq(log, LAMBDA e : e.kind = kind)

MessageIdsInOrder(log, counter) ==
    LET sent == SelectKind(log, "MessageSent") IN
    /\ Len(sent) = counter
    /\ \A k \in 1..Len(sent) : sent[k].messageId = k - 1

\* C12: on both deployments the k-th MessageSent of the log carries
\* messageId k - 1 and messageIdCounter equals the number of MessageSent
\* entries, so no other call (failed send, respond, register, rate) consumes
\* or changes a message id.
C12_MessageIdsAreOneSequence ==
    /\ MessageIdsInOrder(events, messageIdCounter)
    /\ MessageIdsInOrder(baseEvents, baseMessageIdCounter)

\* two sends by different addresses, then registrations and a rating
C12_Witness ==
    /\ messageIdCounter = 2
    /\ nextId = 3
    /\ SelectKind(events, "MessageSent") =
           << MessageSent(0, 0, 0, ""), MessageSent(1, 0, 0, "hi") >>
    /\ \E k \in 1..Len(events) : events[k].kind = "AgentRated"

RECURSIVE LastRegisteredIdUpTo(_, _)
\* the id of the latest AgentRegistered entry of address s among the first
\* k log entries, or 0 when there is none
LastRegisteredIdUpTo(s, k) ==
    IF k = 0 THEN 0
    ELSE IF events[k].kind = "AgentRegistered" /\ events[k].agentAddress = s
         THEN events[k].agentId
         ELSE LastRegisteredIdUpTo(s, k - 1)

LastRegisteredId(s) == LastRegisteredIdUpTo(s, Len(events))

C13_BindingIsLastRegistration ==
    \A s \in Identities :
        /\ agentIds[s] = LastRegisteredId(s)
        /\ baseAgentIds[s] = LastRegisteredId(s)
        /\ ~Registered(s) =>
               \A a \in AssignedIds, m \in Bodies :
                   ENABLED (/\ sendMessageToAgent(s, a, m)
                            /\ events' = Append(events,
                                   MessageSent(messageIdCounter, 0, a, m)))

C13_MessageStep ==
    \/ UNCHANGED <<events, baseEvents>>
    \/ \A s \in Identities, a \in AgentIdArgs :
           /\ a < nextId =>
                 /\ \A m \in Bodies :
                        sendMessageToAgent(s, a, m) =>
                            events'[Len(events')].senderAgentId = LastRegisteredId(s)
                 /\ \A mid \in MessageIdArgs, m \in Responses :
                        respondToAgent(s, mid, a, m) =>
                            events'[Len(events')].senderAgentId = LastRegisteredId(s)
           /\ a < baseNextId =>
                 /\ \A m \in Bodies :
                        baseSendMessageToAgent(s, a, m) =>
                            baseEvents'[Len(baseEvents')].senderAgentId =
                                LastRegisteredId(s)
                 /\ \A mid \in MessageIdArgs, m \in Responses :
                        baseRespondToAgent(s, mid, a, m) =>
                            baseEvents'[Len(baseEvents')].senderAgentId =
                                LastRegisteredId(s)

\* C13: the sender of every MessageSent and the responder of every
\* MessageResponded is the id the submitting address registered last, or 0
\* when it never registered, and a send by an address that never registered
\* is accepted with sender id 0.
C13_SenderIsLastRegisteredAgent ==
    [](C13_BindingIsLastRegistration) /\ [][C13_MessageStep]_vars

\* address 1 registered twice and then sent as its second agent
C13_Witness ==
    /\ Len(events) >= 3
    /\ events[1].kind = "AgentRegistered" /\ events[1].agentAddress = 1
    /\ events[2].kind = "AgentRegistered" /\ events[2].agentAddress = 1
    /\ events[3].kind \in {"MessageSent", "MessageResponded"}
    /\ events[3].senderAgentId = 1
    /\ ~Registered(2)

C14_RespondRequire ==
    \A a \in AgentIdArgs :
        /\ a >= nextId <=> respondToAgentRequire(a) \in AgentNotFound
        /\ a < nextId <=> respondToAgentRequire(a) = "OK"

C14_RespondNeverStuck ==
    \A s \in Identities, mid \in MessageIdArgs, a \in AssignedIds,
       m \in Responses :
        ENABLED (/\ respondToAgent(s, mid, a, m)
                 /\ events' = Append(events,
                        MessageResponded(mid, agentIds[s], a, m)))

C14_RespondStep ==
    \/ UNCHANGED <<events, baseEvents>>
    \/ \A s \in Identities, mid \in MessageIdArgs, a \in AgentIdArgs,
          m \in Responses :
           respondToAgent(s, mid, a, m) =>
               /\ a < nextId
               /\ events' = Append(events,
                      MessageResponded(mid, agentIds[s], a, m))
               /\ UNCHANGED <<agents, agentIds, nextId, messageIdCounter>>

\* C14: respondToAgent reverts (RECV_AGENT_NOT_FOUND) exactly when
\* receiverAgentId >= nextId; for every assigned receiver and every messageId,
\* assigned by a send or not, the call is accepted and appends
\* MessageResponded(messageId, responder, receiverAgentId, response).
C14_RespondFailsOnlyOnUnknownReceiver ==
    [](C14_RespondRequire /\ C14_RespondNeverStuck) /\ [][C14_RespondStep]_vars

\* a response naming message id MaxMessages to agent 1 while nothing was sent
C14_Witness ==
    /\ messageIdCounter = 0
    /\ Len(events) >= 3
    /\ events[3] = MessageResponded(MaxMessages, 0, 1, "hi")

(***************************************************************************)
(* Directory views.                                                        *)
(***************************************************************************)
\* the AgentRegistered entries, in log order: entry i + 1 is registration i
Registrations == SelectKind(events, "AgentRegistered")

C15_ListedAs(entry, i) ==
    /\ entry.id = i
    /\ entry.name = Registrations[i + 1].name
    /\ roleString(entry.role) = Registrations[i + 1].role
    /\ entry.ipfsHash = Registrations[i + 1].ipfsHash
    /\ \E s \in Identities :
          /\ Registrations[i + 1].agentAddress = s
          /\ <<entry.name, entry.role, entry.ipfsHash>> = Profile(s)

\* C15: on both deployments listAgents() has countAgents() entries and entry
\* i has id i and the name, role and ipfsHash submitted by the i-th
\* registerAgent call, whatever was rated or re-registered since.
C15_ListIsRegistrationsInOrder ==
    /\ Len(Registrations) = countAgents
    /\ Len(listAgents) = countAgents
    /\ Len(baseListAgents) = baseCountAgents
    /\ baseCountAgents = countAgents
    /\ \A i \in 0..(countAgents - 1) :
          /\ C15_ListedAs(listAgents[i + 1], i)
          /\ C15_ListedAs(baseListAgents[i + 1], i)

\* three entries, two of them registered by address 1, one of them rated
C15_Witness ==
    /\ countAgents = 3
    /\ Registrations[1].agentAddress = 1
    /\ Registrations[3].agentAddress = 1
    /\ \E k \in 1..3 : listAgents[k].totalInteractions > 0

(***************************************************************************)
(* Properties of the EventMonitor.                                         *)
(***************************************************************************)
\* C16: in one monitoring run no log is emitted twice, emits are in
\* non-decreasing block order, and every log in a block after the start
\* block and up to lastProcessedBlock has been emitted, whatever the
\* interleaving of timer callbacks, provider replies and new blocks.
C16_EmittedExactlyOnceInOrder ==
    /\ \A i \in 1..Len(emitted), j \in 1..Len(emitted) :
          /\ i # j => emitted[i] # emitted[j]
          /\ i < j => emitted[i].blockNumber <= emitted[j].blockNumber
    /\ isListening =>
          \A b \in (runStart + 1)..lastProcessedBlock :
              b <= Len(chain) =>
                  \E i \in 1..Len(emitted) : emitted[i] = chain[b]

\* C17: at most one pollEvents call is in flight at any time.
C17_AtMostOnePollInFlight == BagCardinality(polls) <= 1

\* the message the error kind AlreadyRunning stands for
AlreadyRunning == "Event monitoring is already active"

C18_ThrowsWhileListening ==
    isListening <=> startMonitoringThrows = AlreadyRunning

C18_RejectedStartStep ==
    \/ ~isListening
    \/ \A fb \in FromBlockArgs, ms \in PollIntervalArgs :
           startMonitoring([fromBlock |-> fb, pollInterval |-> ms]) =>
               UNCHANGED <<lastProcessedBlock, pollInterval, isListening,
                           intervalId, timers>>

\* C18: while isListening is true startMonitoring throws 'Event monitoring
\* is already active', and no step of such a call changes
\* lastProcessedBlock, pollInterval, isListening, intervalId or the live
\* timers.
C18_StartWhileListeningIsRejected ==
    [](C18_ThrowsWhileListening) /\ [][C18_RejectedStartStep]_vars

\* polling from a later block with a non-default interval, a poll in flight
C18_Witness ==
    /\ isListening
    /\ startMonitoringThrows = AlreadyRunning
    /\ intervalId # <<>>
    /\ pollInterval = 3000
    /\ lastProcessedBlock > 0
    /\ polls # EmptyBag

\* C19: at most one interval timer is alive at any time, and none is alive
\* while isMonitoring() is false.
C19_AtMostOneTimer ==
    /\ Cardinality(timers) <= 1
    /\ ~isListening => timers = {}

C20_DiscardedStep ==
    \A poll \in BagToSet(polls) :
        (~isListening /\ pollEventsGotLogs(poll, {})) =>
            UNCHANGED <<emitted, lastProcessedBlock>>

\* C20: a pollEvents call that was awaiting a provider reply when
\* stopMonitoring returned (its getLogs reply arrives while isListening is
\* false) emits nothing and leaves lastProcessedBlock alone.
C20_StoppedPollIsDiscarded == [][C20_DiscardedStep]_vars

C27_StopStep ==
    stopMonitoring =>
        /\ ~isMonitoring'
        /\ intervalId' = <<>>
        /\ intervalId # <<>> => intervalId[1] \notin timers'
        /\ (~isMonitoring /\ intervalId = <<>>) => UNCHANGED monVars

C27_StopAndStartAccepted ==
    /\ ENABLED StopMonitoring
    /\ ~isMonitoring => startMonitoringThrows = "OK"

\* C27: stopMonitoring is always accepted and leaves isMonitoring() false and
\* intervalId undefined with its timer cleared; on a monitor that is already
\* idle (stopped before, or never started) it changes nothing; and whenever
\* isMonitoring() is false a startMonitoring call is not rejected.
C27_StopIsIdempotent == [](C27_StopAndStartAccepted) /\ [][C27_StopStep]_vars

C27_Witness ==
    /\ ~isMonitoring
    /\ intervalId = <<>>
    /\ timers = {}
    /\ emitted # <<>>
    /\ polls = EmptyBag
    /\ starting = 0

(***************************************************************************)
(* Properties of the monitor when deliveries, parses and reads fail.       *)
(***************************************************************************)
\* C21: lastProcessedBlock passes a block only after the block's event was
\* emitted to its subscriber and the callback returned: while the monitor
\* listens, every parseable log in a block after the start block and up to
\* lastProcessedBlock is among the emits that returned, also when a
\* subscriber's callback throws.
C21_CursorPassesDeliveredLogsOnly ==
    isListening =>
        \A b \in (runStart + 1)..lastProcessedBlock :
            (b <= Len(chain) /\ chain[b].name \in EventNames) =>
                \E i \in 1..Len(emitted) : emitted[i] = chain[b]

\* the emits a step appended
NewlyEmitted == SubSeq(emitted', Len(emitted) + 1, Len(emitted'))

IsErrorEmit(e) == e.name = ERROR
IsEventEmit(e) == e.name # ERROR
IsParseable(log) == log.name \in EventNames

C22_BatchStep ==
    \A poll \in BagToSet(polls) :
        \A throwing \in SUBSET (poll.fromBlock..poll.currentBlock) :
            (poll.at = "getLogs" /\ pollEventsGotLogs(poll, throwing)) =>
                LET batch == getLogs(poll.fromBlock, poll.currentBlock)
                    Returns(log) == IsParseable(log)
                                        /\ log.blockNumber \notin throwing
                    Fails(log) == \/ log.name = "Undecodable"
                                  \/ IsParseable(log)
                                         /\ log.blockNumber \in throwing
                    ErrorOf(log) == Log(log.blockNumber, ERROR)
                IN /\ SelectSeq(NewlyEmitted, IsEventEmit)
                          = SelectSeq(batch, Returns)
                   /\ SelectSeq(NewlyEmitted, IsErrorEmit)
                          = [k \in 1..Len(SelectSeq(batch, Fails)) |->
                                ErrorOf(SelectSeq(batch, Fails)[k])]
                   /\ lastProcessedBlock' = poll.currentBlock

C23_ReadFailureStep ==
    \A poll \in BagToSet(polls) :
        pollEventsReadFails(poll) =>
            /\ emitted' = Append(emitted, Log(NoBlock, ERROR))
            /\ UNCHANGED <<lastProcessedBlock, isListening, intervalId, timers>>

C23_EventuallyEmitted ==
    \A b \in 1..(MaxBlocks + 1) :
        (isListening /\ b <= Len(chain) /\ b > lastProcessedBlock)
            ~> (b <= Len(chain)
                   /\ \E i \in 1..Len(emitted) : emitted[i] = chain[b])

\* C23: a rejected getBlockNumber or getLogs of a poll emits one error and
\* leaves lastProcessedBlock, isListening and the timer as they were; and in
\* a run that is never stopped and whose reads succeed in the end, the log of
\* every block above lastProcessedBlock is eventually emitted.
C23_FailedReadIsRetried == [][C23_ReadFailureStep]_vars /\ C23_EventuallyEmitted

C23_Witness ==
    /\ isListening
    /\ Len(emitted) = 2
    /\ emitted[1] = Log(NoBlock, ERROR)
    /\ emitted[2] = chain[1]
    /\ lastProcessedBlock = 1

C24_StartStep ==
    /\ \A fb \in FromBlockArgs :
           (/\ ~isListening
            /\ fb.type = "number"
            /\ startMonitoring([fromBlock |-> fb, pollInterval |-> 0]))
               => lastProcessedBlock' = fb.value
    /\ (starting > 0 /\ startMonitoringResumes)
           => lastProcessedBlock' = getBlockNumber

C24_FirstPollStep ==
    \A poll \in BagToSet(polls) :
        (/\ poll.at = "getLogs"
         /\ SelectSeq(emitted, IsEventEmit) = <<>>
         /\ pollEventsGotLogs(poll, {}))
            => LET P == runStart
                   T == poll.currentBlock
               IN /\ T > P
                  /\ lastProcessedBlock' = T
                  /\ SelectSeq(NewlyEmitted, IsEventEmit)
                         = [k \in 1..(T - P) |-> chain[P + k]]

C24_NothingAtOrBeforeStart ==
    \A i \in 1..Len(emitted) :
        IsEventEmit(emitted[i]) => emitted[i].blockNumber > runStart

\* C24: startMonitoring sets lastProcessedBlock to the fromBlock given, or to
\* the block number the provider returns for 'latest'; the first poll of the
\* run that gets its logs, at tip T, emits exactly the logs of blocks
\* P + 1 .. T, once each and in order (T - P emits for one log per block);
\* and no log of block P or earlier is emitted in the run.
C24_FirstPollDeliversAfterStart ==
    /\ [](C24_NothingAtOrBeforeStart)
    /\ [][C24_StartStep /\ C24_FirstPollStep]_vars

C24_Witness ==
    /\ isListening
    /\ runStart = 1
    /\ Len(chain) = 2
    /\ SelectSeq(emitted, IsEventEmit) = <<chain[2]>>
    /\ lastProcessedBlock = 2

(***************************************************************************)
(* Properties of getHistoricalEvents.                                      *)
(***************************************************************************)
\* the key of the array getHistoricalEvents returns for each event name
ArrayOf ==
    [name \in EventNames |->
        CASE name = "AgentRegistered" -> "agentRegistered"
          [] name = "MessageSent" -> "messageSent"
          [] name = "MessageResponded" -> "messageResponded"
          [] name = "AgentUpdated" -> "agentUpdated"
          [] name = "AgentRated" -> "agentRated"
          [] name = "TrustScoreUpdated" -> "trustScoreUpdated"]

\* C25: for every range of blocks, toBlock 0 included, and in every state
\* of the monitor, idle or polling, getHistoricalEvents without filters
\* returns under each kind the events that processLog emits for the logs
\* of that range, in the same order.
C25_HistoricalEqualsLiveFeed ==
    \A from \in 0..MaxBlocks, to \in 0..MaxBlocks :
        from <= to =>
            LET history == getHistoricalEvents(chain, getBlockNumber,
                               [fromBlock |-> NumberOption(from),
                                toBlock |-> NumberOption(to),
                                agentId |-> <<>>, messageId |-> <<>>,
                                senderAgentId |-> <<>>,
                                receiverAgentId |-> <<>>])
                live == processLogs(getLogs(from, to), {})
            IN \A name \in EventNames :
                   history[ArrayOf[name]]
                       = SelectSeq(live, LAMBDA e : e.name = name)

\* an optional id is left out or equals the value
Equals(option, value) == option = <<>> \/ option = <<value>>

\* C26: for every combination of filter values, id 0 included, each array
\* getHistoricalEvents returns holds exactly the events of its kind whose
\* agentId (AgentRegistered, AgentRated, TrustScoreUpdated), or whose
\* messageId, senderAgentId and receiverAgentId (MessageSent,
\* MessageResponded), equal the values given, in log order.
C26_FiltersAreEqualities ==
    \A a \in IdOptions, m \in MessageIdOptions,
       s \in IdOptions, r \in IdOptions :
        LET history == getHistoricalEvents(ledgerLogs, Len(ledgerLogs),
                           [fromBlock |-> NoBlockOption,
                            toBlock |-> NoBlockOption,
                            agentId |-> a, messageId |-> m,
                            senderAgentId |-> s, receiverAgentId |-> r])
            OfAgent(name) ==
                SelectSeq(ledgerLogs, LAMBDA log :
                    log.name = name /\ Equals(a, log.args.agentId))
            OfMessage(name) ==
                SelectSeq(ledgerLogs, LAMBDA log :
                    /\ log.name = name
                    /\ Equals(m, log.args.messageId)
                    /\ Equals(s, log.args.senderAgentId)
                    /\ Equals(r, log.args.receiverAgentId))
        IN /\ history.agentRegistered = OfAgent("AgentRegistered")
           /\ history.agentRated = OfAgent("AgentRated")
           /\ history.trustScoreUpdated = OfAgent("TrustScoreUpdated")
           /\ history.messageSent = OfMessage("MessageSent")
           /\ history.messageResponded = OfMessage("MessageResponded")

(***************************************************************************)
(* Frame, bindings and the log as the ledger's record.                     *)
(***************************************************************************)
\* the step appended the two events of a successful rateAgent on target a
RatedStep(a) ==
    /\ Len(events') = Len(events) + 2
    /\ events'[Len(events) + 1].kind = "AgentRated"
    /\ events'[Len(events) + 1].agentId = a

C31_RecordsOfAssignedIdsOnly ==
    \A a \in AgentIdArgs :
        /\ a >= nextId => agents[a] = ZeroAgent
        /\ a < nextId => agents[a].id = a

C31_FrameStep ==
    /\ nextId' >= nextId
    /\ \A a \in AssignedIds :
           /\ agents'[a].id = agents[a].id
           /\ agents'[a].name = agents[a].name
           /\ agents'[a].role = agents[a].role
           /\ agents'[a].ipfsHash = agents[a].ipfsHash
           /\ (\/ agents'[a].trustScore # agents[a].trustScore
               \/ agents'[a].totalInteractions # agents[a].totalInteractions
               \/ agents'[a].positiveRatings # agents[a].positiveRatings)
                  => RatedStep(a)

\* C31: an agent record exists exactly for the assigned ids and is never
\* removed; no step changes the id, name, role or ipfsHash of an existing
\* record; and a step changes trustScore, totalInteractions or
\* positiveRatings of a record only if it is a successful rateAgent on that
\* agent.
C31_AgentRecordFrame ==
    [](C31_RecordsOfAssignedIdsOnly) /\ [][C31_FrameStep]_vars

C31_Witness ==
    /\ nextId = 3
    /\ messageIdCounter = 1
    /\ events[Len(events)].kind = "AgentRegistered"
    /\ \E a \in AssignedIds, b \in AssignedIds :
           /\ agents[a].totalInteractions = 1
           /\ getAgentReputation(b) = <<100, 0, 0>>

\* the step appended one AgentRegistered event
RegisteredStep ==
    /\ Len(events') = Len(events) + 1
    /\ events'[Len(events')].kind = "AgentRegistered"

C32_RegisterStep ==
    RegisteredStep =>
        LET s == events'[Len(events')].agentAddress IN
        /\ nextId' = nextId + 1
        /\ agentIds'[s] = nextId
        /\ \A o \in Identities \ {s} : agentIds'[o] = agentIds[o]
        /\ Len(listAgents') = Len(listAgents) + 1
        /\ \A k \in 1..Len(listAgents) : listAgents'[k] = listAgents[k]

C32_RateStep ==
    \/ UNCHANGED events
    \/ \A s \in Identities, t \in AssignedIds :
           \A p \in BOOLEAN, c \in Comments :
               (rateAgentRequire(s, t) = "OK" /\ rateAgent(s, t, p, c)) =>
                   events'[Len(events) + 1].raterAgentId = LastRegisteredId(s)

\* C32: a registerAgent step, a repeated one by the same address included,
\* binds the caller to the id just assigned, leaves every other address's
\* binding and every earlier entry of listAgents() as it was, and a later
\* rateAgent by the address is recorded under its latest id.
C32_LastRegistrationWins == [][C32_RegisterStep /\ C32_RateStep]_vars

\* address 1 registered agents 0 and 2, address 2 agent 1, and address 1
\* rated agent 1 as agent 2
C32_Witness ==
    /\ Len(events) = 5
    /\ events[1].kind = "AgentRegistered" /\ events[1].agentAddress = 1
    /\ events[3].kind = "AgentRegistered" /\ events[3].agentAddress = 1
    /\ events[4] = AgentRated(1, 2, TRUE, "Great work!")
    /\ listAgents[1].id = 0
    /\ agentIds[1] = 2

\* C33: rateAgent reports the first failure that applies in the order
\* RATER_NOT_REGISTERED (the caller never registered), AGENT_NOT_FOUND (the
\* target id is not assigned), CANNOT_RATE_SELF (the target is the caller's
\* agent), ALREADY_RATED: an address that never registered gets
\* RATER_NOT_REGISTERED whatever the target, and an address that registered
\* gets AGENT_NOT_FOUND for an unassigned target.
C33_FirstFailureInOrder ==
    \A s \in Identities, t \in AgentIdArgs :
        rateAgentRequire(s, t) =
            IF ~Registered(s) THEN "RATER_NOT_REGISTERED"
            ELSE IF t >= countAgents THEN "AGENT_NOT_FOUND"
            ELSE IF t = LastRegisteredId(s) THEN "CANNOT_RATE_SELF"
            ELSE IF RatedInLog(t, LastRegisteredId(s)) THEN "ALREADY_RATED"
            ELSE "OK"

\* C34: for every pair of bounds, toBlock 0 included, getHistoricalEvents
\* returns under each kind exactly the logs of that kind in the blocks
\* fromBlock .. toBlock, in log order; logs that do not parse are left out
\* and do not end the query.
C34_HistoricalReturnsTheRange ==
    \A from \in 0..MaxBlocks, to \in 0..MaxBlocks :
        LET history == getHistoricalEvents(chain, getBlockNumber,
                           [fromBlock |-> NumberOption(from),
                            toBlock |-> NumberOption(to),
                            agentId |-> <<>>, messageId |-> <<>>,
                            senderAgentId |-> <<>>,
                            receiverAgentId |-> <<>>])
        IN \A name \in EventNames :
               history[ArrayOf[name]] =
                   SelectSeq(chain, LAMBDA log :
                       /\ log.name = name
                       /\ from <= log.blockNumber
                       /\ log.blockNumber <= to)

C36_CursorStep ==
    (isListening /\ isListening') => lastProcessedBlock' >= lastProcessedBlock

\* C36: while a monitoring run lasts, no step lowers lastProcessedBlock,
\* whatever the interleaving of timer callbacks and provider replies.
C36_CursorNeverDecreases == [][C36_CursorStep]_vars

\* the log entries of a kind that carry agentId a
OfAgentInLog(kind, a) ==
    SelectSeq(events, LAMBDA e : e.kind = kind /\ e.agentId = a)

\* C37: the ledger state is a function of the log: countAgents is the number
\* of AgentRegistered entries, messageIdCounter the number of MessageSent
\* entries, and for each agent totalInteractions is the number of its
\* AgentRated entries, positiveRatings the number of those that are positive,
\* and its latest TrustScoreUpdated entry, if any, carries its stored
\* trustScore and totalInteractions.
C37_StateRebuiltFromLog ==
    /\ countAgents = Len(SelectKind(events, "AgentRegistered"))
    /\ messageIdCounter = Len(SelectKind(events, "MessageSent"))
    /\ \A a \in AssignedIds :
          LET rated == OfAgentInLog("AgentRated", a)
              updates == OfAgentInLog("TrustScoreUpdated", a)
              rep == getAgentReputation(a)
          IN /\ rep[2] = Len(rated)
             /\ rep[3] = Len(SelectSeq(rated, LAMBDA e : e.positive))
             /\ updates # <<>> =>
                    /\ updates[Len(updates)].newTrustScore = rep[1]
                    /\ updates[Len(updates)].totalInteractions = rep[2]

C37_Witness ==
    /\ Len(events) = 5
    /\ countAgents = 2
    /\ messageIdCounter = 1
    /\ \E a \in AssignedIds : events[5] = TrustScoreUpdated(a, 0, 1)

C38_RatingsBetweenAgents ==
    \A t \in AgentIdArgs, r \in AgentIdArgs :
        hasAgentRated(t, r) => (t < countAgents /\ r < countAgents /\ r # t)

C38_RatedByBindingStep ==
    \A t \in AgentIdArgs, r \in AgentIdArgs :
        (~hasRated[t][r] /\ hasRated'[t][r]) =>
            /\ RatedStep(t)
            /\ events'[Len(events) + 1].raterAgentId = r
            /\ \E s \in Identities :
                   /\ Registered(s)
                   /\ agentIds[s] = r
                   /\ \E p \in BOOLEAN, c \in Comments : rateAgent(s, t, p, c)

\* C38: every recorded rating is between two different assigned agent ids,
\* and a rating is recorded only by a rateAgent call of an address whose
\* binding, at that call, is the rater id recorded.
C38_RatingsReferToExistingAgents ==
    [](C38_RatingsBetweenAgents) /\ [][C38_RatedByBindingStep]_vars

C38_Witness ==
    /\ hasAgentRated(1, 2)
    /\ hasAgentRated(2, 1)
    /\ countAgents = 3

\* the address that registered agent id
RegistrantOf(id) ==
    LET k == CHOOSE k \in 1..Len(events) :
                 events[k].kind = "AgentRegistered" /\ events[k].agentId = id
    IN events[k].agentAddress

\* C39: no address rates an agent it registered itself and no address rates
\* one target twice, repeated registration included: each AgentRated entry
\* has a rater whose address did not register the target, and two AgentRated
\* entries for one target have raters of different addresses.
C39_NoSelfServingRatings ==
    \A i \in 1..Len(events), j \in 1..Len(events) :
        (events[i].kind = "AgentRated" /\ events[j].kind = "AgentRated") =>
            /\ RegistrantOf(events[i].raterAgentId)
                   # RegistrantOf(events[i].agentId)
            /\ (i # j /\ events[i].agentId = events[j].agentId) =>
                   RegistrantOf(events[i].raterAgentId)
                       # RegistrantOf(events[j].raterAgentId)

(***************************************************************************)
(* The reputation contract against the base contract.                      *)
(***************************************************************************)
\* C40: after the same calls of registerAgent, sendMessageToAgent and
\* respondToAgent, with rateAgent calls in between on the reputation
\* contract only, both contracts have returned the same agent id, report
\* the same countAgents and the same id, name, role and ipfsHash in
\* listAgents, bind every address to the same id, reject the same calls
\* with the same revert string, and hold the same MessageSent and
\* MessageResponded entries in their logs.
C40_ReputationRefinesBase ==
    /\ returned = baseReturned
    /\ countAgents = baseCountAgents
    /\ Len(listAgents) = Len(baseListAgents)
    /\ \A k \in 1..Len(listAgents) :
          baseListAgents[k] = BaseAgent(listAgents[k].id, listAgents[k].name,
                                        listAgents[k].role,
                                        listAgents[k].ipfsHash)
    /\ agentIds = baseAgentIds
    /\ messageIdCounter = baseMessageIdCounter
    /\ \A a \in AgentIdArgs :
          /\ sendMessageToAgentRequire(a) = baseSendMessageToAgentRequire(a)
          /\ respondToAgentRequire(a) = baseRespondToAgentRequire(a)
    /\ SelectKind(events, "MessageSent") = SelectKind(baseEvents, "MessageSent")
    /\ SelectKind(events, "MessageResponded")
           = SelectKind(baseEvents, "MessageResponded")

C40_Witness ==
    /\ Len(baseEvents) = 2
    /\ baseEvents[1].kind = "MessageSent"
    /\ baseEvents[2].kind = "MessageResponded"
    /\ baseReturned = <<1>>
    /\ hasAgentRated(0, 1)

(***************************************************************************)
(* Two monitors of one contract.                                           *)
(***************************************************************************)
\* the timers whose callback polls for the first instance
firstHandles == timers \ otherHandles

\* what an instance has emitted to its subscribers, errors left out
EventsOf(emits) == SelectSeq(emits, LAMBDA e : e.name # ERROR)

\* a step touches the fields, timers, calls in flight and subscribers of one
\* instance at most
C35_OneInstanceStep ==
    \/ UNCHANGED <<firstFields, firstHandles>>
    \/ UNCHANGED <<otherFields, otherHandles>>

\* a listening instance has one timer, which is its own
C35_OwnTimers ==
    /\ otherHandles \subseteq timers
    /\ isListening => intervalId # <<>> /\ firstHandles = {intervalId[1]}
    /\ otherIsListening =>
           otherIntervalId # <<>> /\ otherHandles = {otherIntervalId[1]}

\* each instance has emitted, to its own subscribers, the logs after its own
\* start block up to its own cursor, and no others
C35_OwnDeliveries ==
    /\ EventsOf(emitted) = getLogs(runStart + 1, lastProcessedBlock)
    /\ EventsOf(otherEmitted) =
           getLogs(otherRunStart + 1, otherLastProcessedBlock)

====
